---- MODULE Spec2Model ----
(***************************************************************************)
(* Model of the Baofeng DM-32 driver (src/dm32.c): the serial block        *)
(* transfer client (dm32_read_header_sync, dm32_read_block,                *)
(* dm32_read_block_retry, dm32_download, dm32_upload) writing into the     *)
(* memory image radio_mem with its high-water mark dm32_written_max.       *)
(*                                                                         *)
(* The serial transport is the environment: every serial_read and          *)
(* serial_write outcome is a nondeterministic choice.  A run of identical  *)
(* iterations of the header-sync loop (n junk bytes, n empty reads) is     *)
(* taken as one step whose effect is the n-fold composition of the loop    *)
(* body.                                                                   *)
(*                                                                         *)
(* The decoders (dm32_locate_signature, dm32_parse_slot,                   *)
(* dm32_extract_channels) are functions of radio_mem and                   *)
(* dm32_written_max.  They are operators that return, next to their        *)
(* results, the set of addresses of radio_mem they read; SpecDecode runs   *)
(* them on captured images with one channel slot.                          *)
(***************************************************************************)
EXTENDS Integers, Sequences, FiniteSets, TLC

VARIABLES
    radio_mem,         \* captured bytes: function from written addresses to bytes
    dm32_written_max,  \* high-water mark (src/dm32.c:54)
    radio_progress,    \* progress percentage updated by dm32_read_block
    sent,              \* every buffer handed to serial_write, in order
    calls,             \* every dm32_read_block_retry invocation <<addr, len, attempts>>
    dl,                \* the session: which entry point runs and where it is
    rt,                \* frame of dm32_read_block_retry
    rb,                \* frame of dm32_read_block / dm32_read_header_sync
    dec                \* last decoder call: its result and the addresses it read

vars == <<radio_mem, dm32_written_max, radio_progress, sent, calls, dl, rt, rb, dec>>

-----------------------------------------------------------------------------
(* Program constants *)

MemBound == 2097152
MarkerByte == 87
ReadOpcode == 82
SkipMax == 100000
SyncTimeoutMs == 4000
EmptyReadCostMs == 200
HeaderRestLen == 5
ChunkMax == 512
ProbeAddr == 32807
ProbeLen == 4
ProbeAttempts == 2
BlockAttempts == 2
ProgressUnit == 1048576

(* Bounds of the model *)

MaxJunkSingles == 1
MaxEmptySingles == 1
MaxShortChunk == 5

-----------------------------------------------------------------------------
(* Helpers *)

Byte == 0..255

Min(a, b) == IF a < b THEN a ELSE b

Max(a, b) == IF a > b THEN a ELSE b

B2I(b) == IF b THEN 1 ELSE 0

\* the element of a one-element set: The({ F(x) : x \in {e} }) is F(e) with
\* e evaluated once
The(S) == CHOOSE x \in S : TRUE

\* radio_mem[a]; bytes the driver never stored are the zero-initialised array
MemAt(a) == IF a \in DOMAIN radio_mem THEN radio_mem[a] ELSE 0

\* the device's payload byte number i (from 0) of an answer with seed s
Pay(s, i) == (s + i) % 256

PayloadSeeds == {65, 254}

\* memcpy(radio_mem + dst, buf, n) with buf[i] = Pay(s, from + i)
Memcpy(mem, dst, s, from, n) ==
    [a \in (DOMAIN mem) \cup (dst..(dst + n - 1)) |->
        IF a \in dst..(dst + n - 1) THEN Pay(s, from + (a - dst)) ELSE mem[a]]

\* what dm32_read_exact(buf, n, t) may return: the loop adds up what the
\* serial_read calls return and stops at the first one that returns <= 0, so
\* any count from 0 (the first serial_read is empty) to n
ReadExactResults(n) == 0..n

\* the counts the device of the model makes dm32_read_exact(buf, n, t) return:
\* every count for a request of up to MaxShortChunk bytes, and nothing, all
\* but the last byte, or everything for a longer one
Delivered(n) ==
    IF n <= MaxShortChunk THEN ReadExactResults(n)
    ELSE { r \in ReadExactResults(n) : r = 0 \/ r >= n - 1 }

\* request built by dm32_read_block
BuildRequestSwapped(addr24, len) ==
    <<ReadOpcode, (addr24 \div 65536) % 256, (addr24 \div 256) % 256, addr24 % 256,
      (len \div 256) % 256, len % 256>>

BuildRequestBad(addr24, len) ==
    <<MarkerByte, (addr24 \div 65536) % 256, (addr24 \div 256) % 256, addr24 % 256,
      len % 256, (len \div 256) % 256>>

BuildRequest(addr24, len) ==
    <<ReadOpcode, (addr24 \div 65536) % 256, (addr24 \div 256) % 256, addr24 % 256,
      len % 256, (len \div 256) % 256>>

\* bounds check of dm32_read_block
OutOfRangeBad(addr24, len) == addr24 + len >= MemBound

OutOfRange(addr24, len) == addr24 + len > MemBound

\* header comparison of dm32_read_block
HeaderMatchesAny(hdr, cmd) == hdr[1] = MarkerByte

HeaderMatchesBad(hdr, cmd) ==
    /\ hdr[1] = MarkerByte
    /\ \A k \in 2..5 : hdr[k] = cmd[k]

HeaderMatches(hdr, cmd) ==
    /\ hdr[1] = MarkerByte
    /\ \A k \in 2..6 : hdr[k] = cmd[k]

\* progress update of dm32_read_block
Progress(old, wmax) == IF old < 100 THEN (wmax * 100) \div ProgressUnit ELSE old

-----------------------------------------------------------------------------
(* Messages of the handshake of dm32_download, in order *)

AsciiPSEARCH == <<80, 83, 69, 65, 82, 67, 72>>
AsciiPASSSTA == <<80, 65, 83, 83, 83, 84, 65>>
AsciiSYSINFO == <<83, 89, 83, 73, 78, 70, 79>>
VersionProbe0 == <<86, 0, 0, 64, 13>>
VersionProbe(i) == <<86, 0, 0, 0, i>>
VersionProbeIdx == <<1, 2, 3, 4, 5, 6, 7, 8, 9, 10, 11, 13, 14, 15, 16>>
ResourceFetch == <<71, 0, 0, 0, 0, 1>>
ProgPreamble == <<255, 255, 255, 255, 12, 80, 82, 79, 71, 82, 65, 77>>

HandshakeMessages ==
    <<AsciiPSEARCH, AsciiPASSSTA, AsciiSYSINFO, VersionProbe0>>
    \o [k \in 1..Len(VersionProbeIdx) |-> VersionProbe(VersionProbeIdx[k])]
    \o <<ResourceFetch, ProgPreamble, <<2>>, <<6>>>>

-----------------------------------------------------------------------------
(* Inputs *)

\* block maps the session may be built with (dm32-map.h is included at
\* src/dm32.c:102; its entries are an input of the model)
BlockMaps ==
    { <<<<32809, 3>>, <<2097150, 2>>>>,
      <<<<2097151, 2>>, <<24588, 2>>>> }

\* arguments of a direct dm32_read_block_retry call
DirectBlocks ==
    { <<32807, 4>>, <<28673, 514>>, <<2097150, 2>>, <<2097151, 2>>, <<2097152, 0>> }

DirectAttempts == {1, 3}

-----------------------------------------------------------------------------
(* Frames *)

RtIdle == [phase |-> "idle", addr |-> 0, len |-> 0, attempts |-> 0, i |-> 0, ret |-> 0,
           mem0 |-> <<>>, wmax0 |-> 0, made |-> 0, okSeed |-> 0, dirtySeed |-> 0,
           hdrFails |-> 0]

RbIdle == [phase |-> "idle", addr |-> 0, len |-> 0, cmd |-> <<>>, hdr |-> <<>>,
           waited |-> 0, skip |-> 0, toread |-> 0, off |-> 0, ret |-> 0, seed |-> 0,
           wrote |-> FALSE, didRead |-> FALSE, stalled |-> FALSE, empties |-> 0,
           mem0 |-> <<>>, wmax0 |-> 0, nsent0 |-> 0, why |-> "none"]

DecIdle == [op |-> "none", base |-> 0, ret |-> 0, reads |-> {}, out |-> <<>>]

Init ==
    /\ radio_mem = <<>>
    /\ dm32_written_max = 0
    /\ radio_progress = 0
    /\ sent = <<>>
    /\ calls = <<>>
    /\ dl \in {[mode |-> "none", pc |-> "idle", map |-> m, bi |-> 0, progAt |-> 0,
                opened |-> FALSE, rets |-> <<>>] : m \in BlockMaps}
    /\ rt = RtIdle
    /\ rb = RbIdle
    /\ dec = DecIdle

-----------------------------------------------------------------------------
(* dm32_read_header_sync, src/dm32.c:170-193 *)

\* ++skip > 100000
SkipExceededLate(skip) == skip > SkipMax + 1

SkipExceededEarly(skip) == skip > 0

SkipExceeded(skip) == skip > SkipMax

\* waited += 200, n times
WaitedAfter(waited, n) == waited + EmptyReadCostMs * n

\* loop condition: waited < timeout_msec
SyncLoopRuns(waited) == waited < SyncTimeoutMs

\* b == 0x57
IsMarkerBad(b) == b = ReadOpcode

IsMarker(b) == b = MarkerByte

\* lengths of the runs of junk bytes the device may send when `skip` bytes were
\* discarded: a single byte, or as many as bring skip to the budget exactly
JunkRuns(skip) ==
    (IF skip < MaxJunkSingles \/ skip >= SkipMax THEN {1} ELSE {})
    \cup (IF skip < SkipMax THEN {SkipMax - skip} ELSE {})

\* lengths of the runs of empty reads: a single one, or as many as leave room
\* for exactly one more
EmptyRuns(waited) ==
    LET left == (SyncTimeoutMs - waited) \div EmptyReadCostMs
    IN  (IF waited < MaxEmptySingles * EmptyReadCostMs \/ left <= 1 THEN {1} ELSE {})
        \cup (IF left > 1 THEN {left - 1} ELSE {})

JunkBytes == {0, 6, 82, 255}

RbFail(why) == [rb EXCEPT !.phase = "ret", !.ret = -1, !.why = why]

\* n iterations of the loop, each reading one byte that is not the marker
dm32_read_header_sync_junk ==
    /\ rb.phase = "sync"
    /\ SyncLoopRuns(rb.waited)
    /\ \E b \in JunkBytes, n \in JunkRuns(rb.skip) :
        /\ ~IsMarker(b)
        /\ LET skip2 == rb.skip + n
               r2 == [rb EXCEPT !.skip = skip2, !.didRead = TRUE]
           IN  rb' = IF SkipExceeded(skip2)
                     THEN [r2 EXCEPT !.phase = "ret", !.ret = -1, !.why = "skip"]
                     ELSE r2
    /\ UNCHANGED <<radio_mem, dm32_written_max, radio_progress, sent, calls, dl, rt, dec>>

\* n iterations of the loop, each with an empty (timed-out) one-byte read
dm32_read_header_sync_empty ==
    /\ rb.phase = "sync"
    /\ SyncLoopRuns(rb.waited)
    /\ \E n \in EmptyRuns(rb.waited) :
        LET w2 == WaitedAfter(rb.waited, n)
            r2 == [rb EXCEPT !.waited = w2, !.didRead = TRUE,
                             !.empties = rb.empties + n]
        IN  rb' = IF SyncLoopRuns(w2)
                  THEN r2
                  ELSE [r2 EXCEPT !.phase = "ret", !.ret = -1, !.why = "timeout"]
    /\ UNCHANGED <<radio_mem, dm32_written_max, radio_progress, sent, calls, dl, rt, dec>>

\* the 5 bytes the device may send after a marker: the echo of the request,
\* the echo with the byte at position k (2..6) changed, or, the marker having
\* been a stray 0x57 just before the true header, the first 5 bytes of the echo
HeaderVariants(cmd) ==
    { [j \in 1..6 |-> IF j = 1 THEN MarkerByte
                      ELSE IF j = k THEN (cmd[j] + 1) % 256 ELSE cmd[j]] : k \in 1..6 }
    \cup { [j \in 1..6 |-> IF j <= 2 THEN MarkerByte ELSE cmd[j - 1]] }

\* the iteration that reads the marker, then dm32_read_exact(hdr + 1, 5, 5000)
dm32_read_header_sync_marker ==
    /\ rb.phase = "sync"
    /\ SyncLoopRuns(rb.waited)
    /\ \E b \in {MarkerByte, ReadOpcode} :
        /\ IsMarker(b)
        /\ \E got \in Delivered(HeaderRestLen), h \in HeaderVariants(rb.cmd) :
            rb' = IF got # HeaderRestLen
                  THEN [rb EXCEPT !.phase = "ret", !.ret = -1, !.why = "shorthdr",
                                  !.didRead = TRUE]
                  ELSE [rb EXCEPT !.phase = "validate", !.hdr = [h EXCEPT ![1] = b],
                                  !.didRead = TRUE]
    /\ UNCHANGED <<radio_mem, dm32_written_max, radio_progress, sent, calls, dl, rt, dec>>

-----------------------------------------------------------------------------
(* dm32_read_block, src/dm32.c:196-255 *)

\* destination of the memcpy of a chunk
ChunkDstPast(addr24, off) == addr24 + off + 1

ChunkDstBad(addr24, off) == addr24

ChunkDst(addr24, off) == addr24 + off

\* if ((addr24 + off) > dm32_written_max) dm32_written_max = addr24 + off
NewWrittenMaxBad(old, addr24, off) == addr24 + off

NewWrittenMax(old, addr24, off) == IF addr24 + off > old THEN addr24 + off ELSE old

\* loop condition of dm32_read_block_retry: i < attempts
RetryGoesOnBad(i, attempts) == i <= attempts

RetryGoesOn(i, attempts) == i < attempts

\* entry: bounds check, request, serial_write
dm32_read_block_request ==
    /\ rt.phase = "loop"
    /\ rb.phase = "idle"
    /\ RetryGoesOn(rt.i, rt.attempts)
    /\ LET r0 == [RbIdle EXCEPT !.addr = rt.addr, !.len = rt.len,
                                !.mem0 = radio_mem, !.wmax0 = dm32_written_max,
                                !.nsent0 = Len(sent)]
       IN  IF OutOfRange(rt.addr, rt.len)
           THEN /\ rb' = [r0 EXCEPT !.phase = "ret", !.ret = -1, !.why = "range"]
                /\ sent' = sent
           ELSE \E wok \in BOOLEAN :
                /\ sent' = Append(sent, BuildRequest(rt.addr, rt.len))
                /\ rb' = IF wok
                         THEN [r0 EXCEPT !.phase = "sync", !.wrote = TRUE,
                                         !.cmd = BuildRequest(rt.addr, rt.len)]
                         ELSE [r0 EXCEPT !.phase = "ret", !.ret = -1, !.why = "write",
                                         !.wrote = TRUE,
                                         !.cmd = BuildRequest(rt.addr, rt.len)]
    /\ rt' = [rt EXCEPT !.made = rt.made + 1]
    /\ UNCHANGED <<radio_mem, dm32_written_max, radio_progress, calls, dl, dec>>

\* header comparison after dm32_read_header_sync returned 0
dm32_read_block_validate ==
    /\ rb.phase = "validate"
    /\ IF HeaderMatches(rb.hdr, rb.cmd)
       THEN \E s \in PayloadSeeds :
                rb' = [rb EXCEPT !.phase = "payload", !.toread = rb.len, !.off = 0,
                                 !.seed = s]
       ELSE rb' = RbFail("header")
    /\ UNCHANGED <<radio_mem, dm32_written_max, radio_progress, sent, calls, dl, rt, dec>>

\* one iteration of the payload loop
dm32_read_block_chunk ==
    /\ rb.phase = "payload"
    /\ rb.toread > 0
    /\ LET chunk == Min(rb.toread, ChunkMax)
       IN  \E r \in Delivered(chunk) :
            IF r <= 0
            THEN /\ rb' = [rb EXCEPT !.phase = "ret", !.ret = -1, !.why = "stall",
                                     !.stalled = TRUE]
                 /\ UNCHANGED <<radio_mem, dm32_written_max, radio_progress>>
            ELSE LET off2 == rb.off + r
                     wm2 == NewWrittenMax(dm32_written_max, rb.addr, off2)
                 IN  /\ radio_mem' = Memcpy(radio_mem, ChunkDst(rb.addr, rb.off),
                                            rb.seed, rb.off, r)
                     /\ dm32_written_max' = wm2
                     /\ radio_progress' = Progress(radio_progress, wm2)
                     /\ rb' = [rb EXCEPT !.off = off2, !.toread = rb.toread - r]
    /\ UNCHANGED <<sent, calls, dl, rt, dec>>

\* the payload loop ends: return 0
dm32_read_block_done ==
    /\ rb.phase = "payload"
    /\ rb.toread = 0
    /\ rb' = [rb EXCEPT !.phase = "ret", !.ret = 0, !.why = "ok"]
    /\ UNCHANGED <<radio_mem, dm32_written_max, radio_progress, sent, calls, dl, rt, dec>>

-----------------------------------------------------------------------------
(* dm32_read_block_retry, src/dm32.c:257-265 *)

RtStart(addr24, len, attempts) ==
    [RtIdle EXCEPT !.phase = "loop", !.addr = addr24, !.len = len,
                   !.attempts = attempts, !.mem0 = radio_mem,
                   !.wmax0 = dm32_written_max]

\* dm32_read_block returned: return 0, or usleep and ++i
dm32_read_block_retry_next ==
    /\ rt.phase = "loop"
    /\ rb.phase = "ret"
    /\ rt' = IF rb.ret = 0
             THEN [rt EXCEPT !.phase = "ret", !.ret = 0, !.okSeed = rb.seed]
             ELSE [rt EXCEPT !.i = rt.i + 1,
                             !.dirtySeed = IF rb.off > 0 THEN rb.seed ELSE rt.dirtySeed,
                             !.hdrFails = rt.hdrFails + B2I(rb.why = "header")]
    /\ rb' = RbIdle
    /\ UNCHANGED <<radio_mem, dm32_written_max, radio_progress, sent, calls, dl, dec>>

\* the loop ends without a success: return -1
dm32_read_block_retry_exhausted ==
    /\ rt.phase = "loop"
    /\ rb.phase = "idle"
    /\ ~RetryGoesOn(rt.i, rt.attempts)
    /\ rt' = [rt EXCEPT !.phase = "ret", !.ret = -1]
    /\ UNCHANGED <<radio_mem, dm32_written_max, radio_progress, sent, calls, dl, rb, dec>>

-----------------------------------------------------------------------------
(* Decoder: constants, src/dm32.c:28-48 *)

DM32_CHAN_BASE == 24604
DM32_CHAN_STRIDE == 48
DM32_LABEL_PAD_MAX == 16
DM32_SIG_SCAN_MAX == 32
DM32_PARAMS_OFS == 8
DM32_PARAMS_LEN == 16
DM32_PARAM_IDX_POWER == 0
DM32_PARAM_IDX_TSCC == 5
DM32_PARAM_IDX_MON == 7

\* limit used when nothing was captured, src/dm32.c:431 and 449
FallbackLimit == 32768
\* p < 0x010000 in dm32_extract_channels
ExtractEnd == 65536
\* sizeof(name) in dm32_parse_slot
NameSz == 32

\* float32 bit patterns of 30.0f, 1000.0f, 2000.0f and +infinity
F32Bits30 == 1106247680
F32Bits1000 == 1148846080
F32Bits2000 == 1157234688
F32BitsInf == 2139095040

\* BCD values are kept in units of 10 Hz (MHz * 100000)
Bcd30MHz == 3000000
Bcd1000MHz == 100000000

Abs(x) == IF x < 0 THEN 0 - x ELSE x

-----------------------------------------------------------------------------
(* Decoder: pure helpers *)

is_ascii_printBad(c) == c >= 1 /\ c <= 126

is_ascii_print(c) == c >= 32 /\ c <= 126

\* (dm32_written_max ? dm32_written_max : 0x008000)
DecodeLimit(wmax) == IF wmax # 0 THEN wmax ELSE FallbackLimit

\* the eight BCD digits of the word at address a, most significant first
BcdDigitsBad(a) ==
    << MemAt(a) \div 16, MemAt(a) % 16, MemAt(a + 1) \div 16, MemAt(a + 1) % 16,
       MemAt(a + 2) \div 16, MemAt(a + 2) % 16, MemAt(a + 3) \div 16, MemAt(a + 3) % 16 >>

BcdDigits(a) ==
    << MemAt(a + 3) \div 16, MemAt(a + 3) % 16, MemAt(a + 2) \div 16, MemAt(a + 2) % 16,
       MemAt(a + 1) \div 16, MemAt(a + 1) % 16, MemAt(a) \div 16, MemAt(a) % 16 >>

RECURSIVE DigitsValue(_, _, _)
DigitsValue(d, i, val) == IF i > Len(d) THEN val ELSE DigitsValue(d, i + 1, val * 10 + d[i])

\* bcd_mhz(&radio_mem[a]) * 100000; a digit above 9 gives 0.0
bcd_mhz(a) ==
    The({ IF \E i \in 1..8 : d[i] > 9 THEN 0 ELSE DigitsValue(d, 1, 0) :
            d \in {BcdDigits(a)} })

\* rx_b > 30.0 && rx_b < 1000.0 && tx_b >= 0.0 && tx_b < 1000.0
BcdPlausible(rv, tv) == rv > Bcd30MHz /\ rv < Bcd1000MHz /\ tv >= 0 /\ tv < Bcd1000MHz

\* f32_mhz(&radio_mem[a]): the value returned as sign and float32 magnitude
\* bits (for values of one sign the bit patterns order as the values do), or
\* NaN.  v < 0.0 || v > 2000.0 gives 0.0; neither comparison holds for a NaN
\* or for -0.0 (the word 00 00 00 80), which are returned as they are, sign
\* included.
f32_mhz(a) ==
    LET mag == (MemAt(a + 3) % 128) * 16777216 + MemAt(a + 2) * 65536
               + MemAt(a + 1) * 256 + MemAt(a)
        neg == MemAt(a + 3) >= 128
    IN  IF mag > F32BitsInf THEN [nan |-> TRUE, neg |-> neg, bits |-> 0]
        ELSE IF mag = 0 THEN [nan |-> FALSE, neg |-> neg, bits |-> 0]
        ELSE IF neg THEN [nan |-> FALSE, neg |-> FALSE, bits |-> 0]
        ELSE IF mag > F32Bits2000 THEN [nan |-> FALSE, neg |-> FALSE, bits |-> 0]
        ELSE [nan |-> FALSE, neg |-> FALSE, bits |-> mag]

\* rx_f > 30.0 && rx_f < 1000.0 && tx_f >= 0.0 && tx_f < 1000.0 (-0.0 >= 0.0
\* holds)
F32Plausible(rf, tf) ==
    /\ ~rf.nan /\ rf.bits > F32Bits30 /\ rf.bits < F32Bits1000
    /\ ~tf.nan /\ tf.bits < F32Bits1000

\* is_slot_signature(s, end)
is_slot_signature(s, end) ==
    IF s + 8 >= end THEN FALSE
    ELSE LET m(i) == MemAt(s + i)
             idx == IF m(3) = 0 THEN 4 ELSE 3
         IN  \/ m(0) = 80 /\ m(3) = 68 /\ m(4) = 80 /\ m(7) = 68
             \/ /\ m(0) = 37 /\ m(2) = 68
                /\ s + idx + 2 < end /\ m(idx) = 37 /\ m(idx + 2) = 68
             \/ BcdPlausible(bcd_mhz(s), bcd_mhz(s + 4))

\* digital-like parameter head: 14 00 00 00, p4 in {0x30, 0x34}, p5 == 0x01
DigitalHead(pb) ==
    /\ MemAt(pb) = 20 /\ MemAt(pb + 1) = 0 /\ MemAt(pb + 2) = 0 /\ MemAt(pb + 3) = 0
    /\ MemAt(pb + 4) \in {48, 52} /\ MemAt(pb + 5) = 1

\* analog-like parameter head: 04 80 00 00, p4 == 0x30, p5 == 0x01
AnalogHead(pb) ==
    /\ MemAt(pb) = 4 /\ MemAt(pb + 1) = 128 /\ MemAt(pb + 2) = 0 /\ MemAt(pb + 3) = 0
    /\ MemAt(pb + 4) = 48 /\ MemAt(pb + 5) = 1

\* The frequencies are doubles: bcd_mhz returns val / 100000.0 rounded to
\* the nearest double, a = val / 100000 + ulp(a) * RoundErr(val) / 3125.
\* BinExp(val) is the binary exponent of val / 100000.
BinExp(val) ==
    IF val >= 100000
    THEN CHOOSE e \in 0..9 : 2^e * 100000 <= val /\ val < 2^(e + 1) * 100000
    ELSE 0 - (CHOOSE n \in 1..10 : 100000 <= val * 2^n /\ val * 2^n < 200000)

RECURSIVE Pow2Mod3125(_)
Pow2Mod3125(n) == IF n = 0 THEN 1 ELSE (2 * Pow2Mod3125(n - 1)) % 3125

\* rounding error of val / 100000.0 in units of ulp / 3125
RoundErr(val) ==
    LET r == ((val % 3125) * Pow2Mod3125(47 - BinExp(val))) % 3125
    IN  IF 2 * r < 3125 THEN 0 - r ELSE 3125 - r

\* the same error in units of 2^-62 / 3125
ScaledErr(val) == 2^(BinExp(val) + 10) * RoundErr(val)

\* diff < k / 100000.0 where diff = |tx_b - rx_b|: decided by the integers
\* unless the difference is exactly k / 100000, where the rounding errors of
\* the two quotients and of the constant decide (the subtraction is exact)
DiffBelow(rv, tv, k) ==
    IF Abs(tv - rv) # k THEN Abs(tv - rv) < k
    ELSE ScaledErr(Max(rv, tv)) - ScaledErr(Min(rv, tv)) < ScaledErr(k)

\* diff > k / 100000.0
DiffAbove(rv, tv, k) ==
    IF Abs(tv - rv) # k THEN Abs(tv - rv) > k
    ELSE ScaledErr(Max(rv, tv)) - ScaledErr(Min(rv, tv)) > ScaledErr(k)

\* diff < 0.001
EqualRxTx(rv, tv) == DiffBelow(rv, tv, 100)

\* (diff > 4.999 && diff < 5.001) || (diff > 0.599 && diff < 0.601)
CommonOffset(rv, tv) ==
    \/ DiffAbove(rv, tv, 499900) /\ DiffBelow(rv, tv, 500100)
    \/ DiffAbove(rv, tv, 59900) /\ DiffBelow(rv, tv, 60100)

\* d144 < 20.0 || d430 < 20.0
HamBand(rv) == Abs(rv - 14400000) < 2000000 \/ Abs(rv - 43000000) < 2000000

-----------------------------------------------------------------------------
(* decode_freq_mhz, src/dm32.c:647-697; frequencies in units of 10 Hz, band
   scores in units of 1/100000 *)

Bcd2000MHz == 200000000

BcdDigitsAlt(a) ==
    << MemAt(a) \div 16, MemAt(a) % 16, MemAt(a + 1) \div 16, MemAt(a + 1) % 16,
       MemAt(a + 2) \div 16, MemAt(a + 2) % 16, MemAt(a + 3) \div 16, MemAt(a + 3) % 16 >>

\* bcd_mhz_alt(&radio_mem[a]) * 100000: the digits in forward byte order
bcd_mhz_alt(a) ==
    LET d == BcdDigitsAlt(a)
        val == DigitsValue(d, 1, 0)
    IN  IF \E i \in 1..8 : d[i] > 9 THEN 0
        ELSE IF val < 0 \/ val > Bcd2000MHz THEN 0
        ELSE val

\* double bands[]
Bands == {14400000, 14500000, 14600000, 43000000, 43300000, 43500000,
          43800000, 43900000, 44000000}

\* the least d over the bands (v - bands[i] is exact where d < 2.0 matters)
BandDist(val) ==
    CHOOSE d \in { Abs(val - b) : b \in Bands } :
        \A b \in Bands : d <= Abs(val - b)

\* exponent of steps = v / 0.0125, for v >= 30.0
StepExp(val) ==
    CHOOSE E \in 0..16 : 1250 * 2^E <= val /\ val < 1250 * 2^(E + 1)

RECURSIVE Pow2Mod50(_)
Pow2Mod50(n) == IF n = 0 THEN 1 ELSE (2 * Pow2Mod50(n - 1)) % 50

\* where val / 1250 lies exactly 0.02 above (high = FALSE) or below
\* (high = TRUE) an integer: 5000 * 2^E times the distance of the unrounded
\* quotient v / 0.0125 from the midpoint of the two doubles around val / 1250,
\* from the position of val / 1250 between them, the rounding error of
\* v = val / 100000.0 and that of the constant 0.0125 = (1 + 2^-54) / 80
StepEdge(val, high) ==
    LET E == StepExp(val)
        p == Pow2Mod50(52 - E)
        phi == IF high THEN (50 - p) % 50 ELSE p
    IN  100 * phi * 2^E + RoundErr(val) * 128 * 2^BinExp(val) - val - 2500 * 2^E

\* frac < 0.02, for v >= 30.0: decided by the remainder of val modulo one
\* step of 1250 unless val / 1250 is exactly 0.02 from an integer, where
\* the rounding of steps decides
StepAligned(val) ==
    LET r == val % 1250
    IN  IF r < 25 \/ r > 1225 THEN TRUE
        ELSE IF r = 25 THEN StepEdge(val, FALSE) < 0
        ELSE IF r = 1225 THEN StepEdge(val, TRUE) > 0
        ELSE FALSE

\* dm32_band_score(v) * 100000, for v >= 30.0 (2.0 - d and best + 0.5 are exact)
dm32_band_score(val) ==
    (IF BandDist(val) < 200000 THEN 200000 - BandDist(val) ELSE 0)
    + (IF StepAligned(val) THEN 50000 ELSE 0)

\* v >= 30.0 && v <= 1000.0
FreqPlausible(v) == v >= Bcd30MHz /\ v <= Bcd1000MHz

\* s2 > s1
PreferAltBad(s1, s2) == s2 >= s1

PreferAlt(s1, s2) == s2 > s1

\* decode_freq_mhz(&radio_mem[a], rx_hint) * 100000
decode_freq_mhz(a, rx_hint) ==
    LET v1 == bcd_mhz(a)
        v2 == bcd_mhz_alt(a)
        ok1 == FreqPlausible(v1)
        ok2 == FreqPlausible(v2)
    IN  IF ok1 /\ ~ok2 THEN v1
        ELSE IF ~ok1 /\ ok2 THEN v2
        ELSE IF ok1 /\ ok2
             THEN (IF PreferAlt(dm32_band_score(v1), dm32_band_score(v2)) THEN v2 ELSE v1)
        ELSE IF FreqPlausible(rx_hint) THEN rx_hint
        ELSE 0

-----------------------------------------------------------------------------
(* dm32_locate_signature, src/dm32.c:447-549 *)

\* label loop: the address where
\* while (q < limit && is_ascii_print(radio_mem[q]) && k < name_sz-1) stops
RECURSIVE LabelStop(_, _, _)
LabelStop(q, k, limit) ==
    IF q < limit /\ is_ascii_print(MemAt(q)) /\ k < NameSz - 1
    THEN LabelStop(q + 1, k + 1, limit)
    ELSE q

\* pad loop: the address where the skip over 0xFF / 0x00 stops
RECURSIVE PadStop(_, _, _)
PadStop(q, pad, limit) ==
    IF pad < DM32_LABEL_PAD_MAX /\ q < limit /\ MemAt(q) \in {255, 0}
    THEN PadStop(q + 1, pad + 1, limit)
    ELSE q

\* addresses read by the 0xFF test on radio_mem[pb + 10 .. pb + 13], which
\* stops at the first byte that is not 0xFF
RECURSIVE FillReads(_, _)
FillReads(pb, j) ==
    IF j > 13 THEN {}
    ELSE {pb + j} \cup (IF MemAt(pb + j) = 255 THEN FillReads(pb, j + 1) ELSE {})

\* score of the candidate at sig itself (score, param_ok)
ScoreAt(sig, limit) ==
    LET rv == bcd_mhz(sig)
        tv == bcd_mhz(sig + 4)
        pb == sig + DM32_PARAMS_OFS
        dig == pb + 12 < limit /\ DigitalHead(pb)
        ana == pb + 12 < limit /\ AnalogHead(pb)
        fill == pb + 12 < limit /\ \A j \in 10..13 : MemAt(pb + j) = 255
    IN  [score |-> (IF is_slot_signature(sig, limit) THEN 3 ELSE 0)
                   + (IF BcdPlausible(rv, tv)
                      THEN 5 + 2 * B2I(EqualRxTx(rv, tv)) + 2 * B2I(CommonOffset(rv, tv))
                             + B2I(HamBand(rv))
                      ELSE 0)
                   + 6 * B2I(dig) + 5 * B2I(ana) + 2 * B2I(fill)
                   + B2I(F32Plausible(f32_mhz(sig), f32_mhz(sig + 4))),
         sig |-> sig,
         param_ok |-> dig \/ ana,
         bcd_ok |-> BcdPlausible(rv, tv)]

\* score of the alternative alignment sig2 = sig + 4 (score2, param_ok2)
ScoreAlt(sig2, limit) ==
    IF sig2 + 12 < limit
    THEN LET rv == bcd_mhz(sig2)
             tv == bcd_mhz(sig2 + 4)
                  pb2 == sig2 + DM32_PARAMS_OFS
             dig == pb2 + 12 < limit /\ DigitalHead(pb2)
             ana == pb2 + 12 < limit /\ AnalogHead(pb2)
         IN  [score |-> (IF is_slot_signature(sig2, limit) THEN 2 ELSE 0)
                        + (IF BcdPlausible(rv, tv)
                           THEN 6 + 2 * B2I(EqualRxTx(rv, tv)) + 2 * B2I(CommonOffset(rv, tv))
                           ELSE 0)
                        + 7 * B2I(dig) + 5 * B2I(ana),
              sig |-> sig2,
              param_ok |-> dig \/ ana,
              bcd_ok |-> BcdPlausible(rv, tv)]
    ELSE [score |-> 0, sig |-> sig2, param_ok |-> FALSE, bcd_ok |-> FALSE]

\* one pass of the inner loop body: if (score2 > score) take the alternative
Candidate(sig, limit) ==
    LET c1 == ScoreAt(sig, limit)
        c2 == ScoreAlt(sig + 4, limit)
    IN  IF c2.score > c1.score THEN c2 ELSE c1

\* addresses of radio_mem read by one pass of the inner loop body
CandidateReads(sig, limit) ==
    LET pb == sig + DM32_PARAMS_OFS
        sig2 == sig + 4
        pb2 == sig2 + DM32_PARAMS_OFS
    IN  (sig..(sig + 7))
        \cup (IF pb + 12 < limit THEN (pb..(pb + 5)) \cup FillReads(pb, 10) ELSE {})
        \cup (IF sig2 + 12 < limit
              THEN (sig2..(sig2 + 7)) \cup (IF pb2 + 12 < limit THEN pb2..(pb2 + 5) ELSE {})
              ELSE {})

\* the two scan loops, iteration idx = 4 * scan + k examines sig = q + scan + k
SigOf(q, idx) == q + (idx \div 4) + (idx % 4)

\* the iterations whose body runs: the outer loop breaks when
\* base_sig + 12 >= limit and the inner one when sig + 12 >= limit, and
\* sig >= base_sig grows with k, so a body runs exactly when sig + 12 < limit
ScanVisited(q, limit) ==
    { idx \in 0..(4 * DM32_SIG_SCAN_MAX - 1) : SigOf(q, idx) + 12 < limit }

\* score, sig and param_ok of every candidate the scan examines
CandidateTable(q, limit) ==
    [s \in { SigOf(q, idx) : idx \in ScanVisited(q, limit) } |-> Candidate(s, limit)]

\* best_score, best_sig, best_param_ok after the scan over the candidates
\* cand: if (score > best_score) keeps the first candidate of highest score
BestOf(q, limit, cand) ==
    LET visited == ScanVisited(q, limit)
        highest == CHOOSE m \in { cand[s].score : s \in DOMAIN cand } :
                     \A s \in DOMAIN cand : cand[s].score <= m
        top == CHOOSE i \in visited :
                 /\ cand[SigOf(q, i)].score = highest
                 /\ \A j \in visited : cand[SigOf(q, j)].score = highest => i <= j
    IN  IF visited = {}
        THEN [score |-> -1, sig |-> 0, param_ok |-> FALSE, reads |-> {}]
        ELSE [score |-> highest, sig |-> cand[SigOf(q, top)].sig,
              param_ok |-> cand[SigOf(q, top)].param_ok,
              reads |-> UNION { CandidateReads(s, limit) : s \in DOMAIN cand }]

ScanBest(q, limit) == The({ BestOf(q, limit, cand) : cand \in {CandidateTable(q, limit)} })

\* best_score >= 9 || (best_score >= 6 && best_param_ok)
AcceptedBad(score, param_ok) == score >= 6

Accepted(score, param_ok) == score >= 9 \/ (score >= 6 /\ param_ok)

LocateFail(reads) ==
    [ret |-> -1, sig |-> 0, name |-> <<>>, q |-> 0, score |-> -1, param_ok |-> FALSE,
     reads |-> reads]

\* the outcome once the scan from the post-pad cursor q3 has produced best
LocateAfterScan(p, limit, q1, q3, best) ==
    LET reads == {a \in p..q1 : a < limit}
                 \cup {a \in (q1 + 1)..q3 : a < limit /\ a - (q1 + 1) < DM32_LABEL_PAD_MAX}
                 \cup best.reads
    IN  IF Accepted(best.score, best.param_ok)
        THEN [ret |-> 0, sig |-> best.sig, name |-> [i \in 1..(q1 - p) |-> MemAt(p + i - 1)],
              q |-> q3, score |-> best.score, param_ok |-> best.param_ok, reads |-> reads]
        ELSE [LocateFail(reads) EXCEPT !.q = q3, !.score = best.score,
                                       !.param_ok = best.param_ok]

\* q < limit && radio_mem[q] == 0x00
LabelTerminatedBad(q, limit) == q < limit

LabelTerminated(q, limit) == q < limit /\ MemAt(q) = 0

\* the outcome once the label loop has stopped at q1
LocateAfterLabel(p, limit, q1) ==
    LET labelReads == {a \in p..q1 : a < limit}
    IN  IF q1 = p THEN LocateFail(labelReads)
        ELSE IF ~LabelTerminated(q1, limit) THEN LocateFail(labelReads)
        ELSE The({ LocateAfterScan(p, limit, q1, q3, best) :
                     q3 \in {PadStop(q1 + 1, 0, limit)},
                     best \in {ScanBest(PadStop(q1 + 1, 0, limit), limit)} })

\* dm32_locate_signature(p, &sig, name, sizeof(name)): ret, *sig_out, name_buf,
\* the post-pad cursor q, the best score, and the addresses of radio_mem read
dm32_locate_signature(p) ==
    LET limit == DecodeLimit(dm32_written_max)
    IN  IF p + 1 >= limit THEN LocateFail({})
        ELSE The({ LocateAfterLabel(p, limit, q1) : q1 \in {LabelStop(p, 0, limit)} })

-----------------------------------------------------------------------------
(* dm32_parse_slot, src/dm32.c:552-614 *)

\* the 4 bytes at s + 4 look like a params header
HeaderAtTxBad(s) == MemAt(s + 4) \in {20, 4}

HeaderAtTx(s) ==
    \/ MemAt(s + 4) = 20 /\ MemAt(s + 5) = 0 /\ MemAt(s + 6) = 0 /\ MemAt(s + 7) = 0
    \/ MemAt(s + 4) = 4 /\ MemAt(s + 5) = 128 /\ MemAt(s + 6) = 0 /\ MemAt(s + 7) = 0

\* s + DM32_PARAMS_OFS + DM32_PARAMS_LEN > dm32_written_max
SlotTruncated(s, wmax) == s + DM32_PARAMS_OFS + DM32_PARAMS_LEN > wmax

\* (byte & mask) != 0 for a one-bit mask
BitSetBad(byte, mask) == byte >= mask

BitSet(byte, mask) == (byte \div mask) % 2 = 1

Bcd100MHz == 10000000

Bcd10MHz == 1000000

\* out->tx_mhz after the sanity check against out->rx_mhz: diff > 10.0 is
\* decided as the other comparisons of a difference of two quotients are
ClampTxBad(rx, tx) == tx

ClampTx(rx, tx) ==
    IF rx >= Bcd100MHz /\ rx <= Bcd1000MHz
    THEN (IF tx < Bcd100MHz \/ tx > Bcd1000MHz \/ DiffAbove(rx, tx, Bcd10MHz) THEN rx ELSE tx)
    ELSE tx

\* out->rx_mhz and out->tx_mhz for the signature at s
SlotFreqsAt(s, tx_ofs) ==
    The({ [rx_mhz |-> rx, tx_mhz |-> ClampTx(rx, decode_freq_mhz(s + tx_ofs, rx))] :
            rx \in {decode_freq_mhz(s, 0)} })

\* power_high, timeslot and color_code as the is_digital branch assigns them
\* from p0 and p5 (src/dm32.c:592-595)
DigitalFields(p0, p5) ==
    [power_high |-> B2I(BitSet(p0, 4)),
     timeslot |-> IF BitSet(p5, 16) THEN 2 ELSE 1,
     color_code |-> p5 % 16]

\* as the is_analog branch assigns them (592, 598-599)
AnalogFields(p0) ==
    [power_high |-> B2I(BitSet(p0, 4)), timeslot |-> 1, color_code |-> 0]

\* as the fallback branch assigns them from params[DM32_PARAM_IDX_POWER] and
\* params[DM32_PARAM_IDX_TSCC] (602-607); w is the 16-byte window
LegacyFieldsBad(w) ==
    [power_high |-> B2I(BitSet(w[DM32_PARAM_IDX_POWER + 1], 4)),
     timeslot |-> IF BitSet(w[DM32_PARAM_IDX_TSCC + 1], 32) THEN 2 ELSE 1,
     color_code |-> w[DM32_PARAM_IDX_TSCC + 1] % 16]

LegacyFields(w) ==
    [power_high |-> B2I(BitSet(w[DM32_PARAM_IDX_POWER + 1], 4)),
     timeslot |-> IF BitSet(w[DM32_PARAM_IDX_TSCC + 1], 16) THEN 2 ELSE 1,
     color_code |-> w[DM32_PARAM_IDX_TSCC + 1] % 16]

ParseFail(base, loc, reads) ==
    [ret |-> -1, offset |-> base, sig_offset |-> 0, name |-> <<>>, rx_mhz |-> 0,
     tx_mhz |-> 0, tx_ofs |-> 0,
     params_ofs |-> 0, power_high |-> 0, timeslot |-> 0, color_code |-> 0,
     monitor_flag |-> 0, params |-> <<>>, is_digital |-> FALSE, is_analog |-> FALSE,
     loc |-> loc, reads |-> reads]

\* the outcome once dm32_locate_signature has returned loc
ParseLocated(base, loc) ==
    LET s == loc.sig
        swapped == s + 12 <= dm32_written_max /\ HeaderAtTx(s)
        tx_ofs == IF swapped THEN 8 ELSE 4
        params_ofs == IF swapped THEN 4 ELSE 8
        P(i) == MemAt(s + params_ofs + i)
        is_digital == P(0) = 20 /\ P(1) = 0 /\ P(2) = 0 /\ P(3) = 0 /\ P(5) = 1
        is_analog == P(0) = 4 /\ P(1) = 128 /\ P(2) = 0 /\ P(3) = 0
        fields == IF is_digital THEN DigitalFields(P(0), P(5))
                  ELSE IF is_analog THEN AnalogFields(P(0))
                  ELSE LegacyFields([i \in 1..DM32_PARAMS_LEN |-> P(i - 1)])
        reads == loc.reads
                 \cup (s..(s + 3))
                 \cup (IF s + 12 <= dm32_written_max THEN (s + 4)..(s + 7) ELSE {})
                 \cup ((s + tx_ofs)..(s + tx_ofs + 3))
                 \cup ((s + params_ofs)..(s + params_ofs + DM32_PARAMS_LEN - 1))
    IN  IF loc.ret # 0 THEN ParseFail(base, loc, loc.reads)
        ELSE IF SlotTruncated(s, dm32_written_max) THEN ParseFail(base, loc, loc.reads)
        ELSE [ret |-> 0, offset |-> base, sig_offset |-> s, name |-> loc.name,
              rx_mhz |-> SlotFreqsAt(s, tx_ofs).rx_mhz,
              tx_mhz |-> SlotFreqsAt(s, tx_ofs).tx_mhz,
              tx_ofs |-> tx_ofs, params_ofs |-> params_ofs,
              power_high |-> fields.power_high,
              timeslot |-> fields.timeslot,
              color_code |-> fields.color_code,
              monitor_flag |-> B2I(BitSet(P(DM32_PARAM_IDX_MON), 1)),
              params |-> [i \in 1..DM32_PARAMS_LEN |-> P(i - 1)],
              is_digital |-> is_digital, is_analog |-> is_analog,
              loc |-> loc, reads |-> reads]

\* dm32_parse_slot(base, &out): ret, the fields written to out, and the
\* addresses of radio_mem read, those of dm32_locate_signature included
dm32_parse_slot(base) ==
    The({ ParseLocated(base, loc) : loc \in {dm32_locate_signature(base)} })

-----------------------------------------------------------------------------
(* dm32_extract_channels, src/dm32.c:427-444 *)

\* chans[128] at src/dm32.c:991 and 1059
ExtractMaxc == 128

\* base + i * stride
SlotAddr(i) == DM32_CHAN_BASE + i * DM32_CHAN_STRIDE

\* the slot addresses p the loop
\* for (p = base; p + 1 < limit && p < 0x010000; p += stride) visits
ExtractSlots(limit) ==
    { p \in { DM32_CHAN_BASE + i * DM32_CHAN_STRIDE :
                i \in 0..((ExtractEnd - 1 - DM32_CHAN_BASE) \div DM32_CHAN_STRIDE) } :
        p + 1 < limit /\ p < ExtractEnd }

\* the slots of a loop at which the label loop of dm32_locate_signature runs
\* at least once.  At every other slot p it stops with k == 0, so that
\* dm32_locate_signature returns -1 (src/dm32.c:455) and dm32_parse_slot with
\* it (557), radio_mem[p] being the one byte read
LabelSlots(slots) == { p \in slots : is_ascii_print(MemAt(p)) }

\* what the calls of dm32_parse_slot at the other slots read: radio_mem[p],
\* unless p + 1 >= limit (450)
BlankReads(slots, limit) ==
    { p \in slots : ~is_ascii_print(MemAt(p)) /\ p + 1 < limit }

\* the outcome once every slot of the loop has been parsed, res[p] being
\* what dm32_parse_slot(p) returned at the slots of LabelSlots(slots)
ExtractParsed(slots, res, maxc) ==
    LET found == {p \in DOMAIN res : res[p].ret = 0}
    IN  [slots |-> slots,
         found |-> found,
         count |-> Min(Cardinality(found), maxc),
         reads |-> BlankReads(slots, DecodeLimit(dm32_written_max))
                   \cup UNION {res[p].reads : p \in DOMAIN res}]

\* chans[].name after dm32_extract_channels(chans, maxc) returned ex: the
\* names of the first maxc slots that parsed, in the order of their addresses
ExtractNames(ex, maxc) ==
    { dm32_parse_slot(p).name :
        p \in {p \in ex.found : Cardinality({x \in ex.found : x < p}) < maxc} }

\* dm32_extract_channels(chans, maxc): the slot addresses handed to
\* dm32_parse_slot, those it accepted, and the addresses of radio_mem read
dm32_extract_channels(maxc) ==
    The({ The({ ExtractParsed(slots, res, maxc) :
                  res \in {[p \in LabelSlots(slots) |-> dm32_parse_slot(p)]} }) :
            slots \in {ExtractSlots(DecodeLimit(dm32_written_max))} })

-----------------------------------------------------------------------------
(* The consumers of the slot decoder: dm32_write_channels_fields_csv,
   dm32_print_config and dm32_extract_channels, as far as the slot addresses
   they hand to dm32_parse_slot and the bytes of radio_mem they read there *)

DM32_CHAN_WINDOW == 240

\* end = DM32_CHAN_BASE + DM32_CHAN_STRIDE * DM32_CHAN_WINDOW
WindowEnd == DM32_CHAN_BASE + DM32_CHAN_STRIDE * DM32_CHAN_WINDOW

WindowSlots == { SlotAddr(i) : i \in 0..(DM32_CHAN_WINDOW - 1) }

\* the outcome once every slot of a loop has been parsed, res[p] being what
\* dm32_parse_slot(p) returned at the slots of LabelSlots(slots): the slots
\* handed over, those that gave a row, and the addresses of radio_mem read
ScanParsed(slots, res) ==
    [slots |-> slots,
     found |-> {p \in DOMAIN res : res[p].ret = 0},
     reads |-> BlankReads(slots, DecodeLimit(dm32_written_max))
               \cup UNION {res[p].reads : p \in DOMAIN res}]

\* for (i = 0; i < DM32_CHAN_WINDOW; ++i): the loop breaks at the first p
\* with p + 1 >= dm32_written_max || p >= end, and p grows with i
FieldsCsvSlots(wmax) == { p \in WindowSlots : p + 1 < wmax /\ p < WindowEnd }

\* dm32_write_channels_fields_csv(): fok is whether fopen gave a file; without
\* one the function returns before its loop
dm32_write_channels_fields_csv(fok) ==
    IF ~fok THEN ScanParsed({}, <<>>)
    ELSE The({ The({ ScanParsed(slots, res) :
                       res \in {[p \in LabelSlots(slots) |-> dm32_parse_slot(p)]} }) :
                 slots \in {FieldsCsvSlots(dm32_written_max)} })

\* for (p = ch_base; p < ch_end && p < dm32_written_max; p += DM32_CHAN_STRIDE):
\* the first loop stops at the first slot that parses and the second one,
\* which runs if there is such a slot, visits them all
ConfigSlots(wmax) == { p \in WindowSlots : p < WindowEnd /\ p < wmax }

-----------------------------------------------------------------------------
(* dm32_write_slots_debug_csv, src/dm32.c:699-766 *)

\* for (unsigned i = 0; i < 128; i++)
DebugSlotsMax == 128
\* char lbl[64]
DebugLabelSz == 64
\* unsigned sl = 32
DebugSigDump == 32

\* the loop breaks at the first p with p + 1 >= dm32_written_max || p >= end
DebugSlots(wmax) ==
    { p \in { SlotAddr(i) : i \in 0..(DebugSlotsMax - 1) } : p + 1 < wmax /\ p < WindowEnd }

\* where while (q < dm32_written_max && is_ascii_print(radio_mem[q]) &&
\* k < sizeof(lbl)-1) stops
RECURSIVE DebugLabelStop(_, _, _)
DebugLabelStop(q, k, wmax) ==
    IF q < wmax /\ is_ascii_print(MemAt(q)) /\ k < DebugLabelSz - 1
    THEN DebugLabelStop(q + 1, k + 1, wmax)
    ELSE q

\* where the skip over at most DM32_LABEL_PAD_MAX bytes 0xFF stops
RECURSIVE DebugPadStop(_, _, _)
DebugPadStop(s, pad, wmax) ==
    IF pad < DM32_LABEL_PAD_MAX /\ s < wmax /\ MemAt(s) = 255
    THEN DebugPadStop(s + 1, pad + 1, wmax)
    ELSE s

\* the steps scan of the seek loop at which is_slot_signature(sig, wmax)
\* holds.  is_slot_signature(sig, wmax) needs m[0] == 0x50, m[0] == 0x25 or
\* rx_b > 30.0, hence a byte other than zero at sig..sig+3, which is a stored
\* one: only the steps with a stored byte there are evaluated.
DebugSigHits(s0, wmax) ==
    { j \in { a - s0 - k : a \in {a \in DOMAIN radio_mem :
                                    a >= s0 /\ a <= s0 + DM32_SIG_SCAN_MAX + 2},
                           k \in 0..3 } :
        /\ j \in 0..(DM32_SIG_SCAN_MAX - 1)
        /\ s0 + j < wmax
        /\ is_slot_signature(s0 + j, wmax) }

\* the addresses lo..hi and those of the ranges pieces[i..]: each range is
\* <<first, last>>, an empty one has last < first, and the first addresses
\* do not decrease along pieces, so that a range either continues lo..hi or
\* lies above it
RECURSIVE Covered(_, _, _, _)
Covered(pieces, i, lo, hi) ==
    IF i > Len(pieces) THEN lo..hi
    ELSE The({ IF pc[2] < pc[1] THEN Covered(pieces, i + 1, lo, hi)
               ELSE IF pc[1] <= hi + 1
                    THEN The({ Covered(pieces, i + 1, lo, h) : h \in {Max(hi, pc[2])} })
                    ELSE (lo..hi) \cup Covered(pieces, i + 1, pc[1], pc[2]) :
               pc \in {pieces[i]} })

\* the seek loop from s0, is_slot_signature having held at the steps hits:
\* the last step the loop makes (the first hit, or the last step of all) and
\* s after the loop (the first hit, or s0 as before)
DebugSeek(s0, hits) ==
    IF hits = {} THEN [first |-> DM32_SIG_SCAN_MAX - 1, s |-> s0]
    ELSE The({ [first |-> j, s |-> s0 + j] : j \in {j \in hits : \A h \in hits : j <= h} })

\* the row of slot p, the label loop having stopped at q, the pad loop at s0
\* and the seek loop as seek tells: the label, the
\* signature start s, the four frequencies, the lengths of the three hex
\* dumps (the slot from p, the parameters from s + DM32_PARAMS_OFS, the bytes
\* from s), and the addresses of radio_mem read
DebugRowAt(p, wmax, q, s0, seek) ==
    LET first == seek.first
        s == seek.s
        slot_len == IF p + DM32_CHAN_STRIDE > wmax THEN wmax - p ELSE DM32_CHAN_STRIDE
        freqs == s + 8 <= wmax
        plen == IF s + DM32_PARAMS_OFS < wmax
                THEN (IF s + DM32_PARAMS_OFS + DM32_PARAMS_LEN > wmax
                      THEN wmax - (s + DM32_PARAMS_OFS) ELSE DM32_PARAMS_LEN)
                ELSE 0
        sl == IF s < wmax
              THEN (IF s + DebugSigDump > wmax THEN wmax - s ELSE DebugSigDump)
              ELSE 0
        zero == [nan |-> FALSE, neg |-> FALSE, bits |-> 0]
    IN  [row |-> TRUE,
         p |-> p,
         lbl |-> [i \in 1..(q - p) |-> MemAt(p + i - 1)],
         s |-> s,
         rx_bcd |-> IF freqs THEN bcd_mhz(s) ELSE 0,
         tx_bcd |-> IF freqs THEN bcd_mhz(s + 4) ELSE 0,
         rx_f32 |-> IF freqs THEN f32_mhz(s) ELSE zero,
         tx_f32 |-> IF freqs THEN f32_mhz(s + 4) ELSE zero,
         slot_len |-> slot_len,
         plen |-> plen,
         sl |-> sl,
         \* the label loop and the slot dump from p, the pad loop from q + 1,
         \* the seek loop from s0, the frequencies and the 32-byte dump from
         \* s, the parameters from s + DM32_PARAMS_OFS
         reads |-> The({ Covered(pieces, 1, p, q) :
                           pieces \in {<<<<p, p + slot_len - 1>>,
                                         <<q + 1, Min(Min(s0, wmax - 1), q + DM32_LABEL_PAD_MAX)>>,
                                         <<s0, IF s0 + 8 < wmax
                                               THEN Min(s0 + first, wmax - 9) + 7
                                               ELSE s0 - 1>>,
                                         <<s, IF freqs THEN s + 7 ELSE s - 1>>,
                                         <<s, s + sl - 1>>,
                                         <<s + DM32_PARAMS_OFS,
                                           s + DM32_PARAMS_OFS + plen - 1>>>>} })]

\* one iteration of the loop for the slot at p: no row unless the label ends
\* in 0x00 below dm32_written_max
DebugRow(p, wmax) ==
    The({ IF ~(q < wmax /\ MemAt(q) = 0)
          THEN [row |-> FALSE, p |-> p, reads |-> {a \in p..q : a < wmax}]
          ELSE The({ DebugRowAt(p, wmax, q, s0, seek) :
                       s0 \in {DebugPadStop(q + 1, 0, wmax)},
                       seek \in {DebugSeek(DebugPadStop(q + 1, 0, wmax),
                                           DebugSigHits(DebugPadStop(q + 1, 0, wmax), wmax))} }) :
          q \in {DebugLabelStop(p, 0, wmax)} })

\* the outcome once every slot of the loop has had its iteration, rs being
\* what the iterations gave: the slots visited, the rows written, and the
\* addresses of radio_mem read
DebugParsed(rs) ==
    [slots |-> { r.p : r \in rs },
     rows |-> { r \in rs : r.row },
     reads |-> UNION { r.reads : r \in rs }]

\* dm32_write_slots_debug_csv(): fok is whether fopen gave a file; without
\* one the function returns before its loop
dm32_write_slots_debug_csv(fok) ==
    IF ~fok THEN DebugParsed({})
    ELSE The({ DebugParsed(rs) :
                 rs \in {{ DebugRow(p, dm32_written_max) : p \in DebugSlots(dm32_written_max) }} })

-----------------------------------------------------------------------------
(* dm32_write_csv, src/dm32.c:1028-1141: the zone scan over the mapped
   blocks, dm32_extract_channels, and the validation of the rows of the CSV
   given *)

\* const uint32_t ZONES_MAX_ADDR = 0x010000
ZONES_MAX_ADDR == 65536
\* char buf[64]
ZoneBufSz == 64
\* dm32_zone_t zones[256] of dm32_write_csv
ZonesMax == 256
\* dm32_zone_t zones[128] of dm32_print_config
PrintZonesMax == 128
\* zones[i].off < 0x002000 && len > 0 && len <= 16
CleanAddrMax == 8192
CleanLenMax == 16
\* len < 3 || len > 24
ZoneLenMin == 3
ZoneLenMax == 24

is_upper(c) == c >= 65 /\ c <= 90

is_lower(c) == c >= 97 /\ c <= 122

is_digit(c) == c >= 48 /\ c <= 57

is_space(c) == c = 32 \/ c = 45

\* looks_like_zone(s, len), name being the len characters of s
looks_like_zone(name) ==
    LET len == Len(name)
        lowers == Cardinality({i \in 1..len : is_lower(name[i])})
        uppers == Cardinality({i \in 1..len : is_upper(name[i])})
    IN  /\ ~(len < ZoneLenMin \/ len > ZoneLenMax)
        /\ is_upper(name[1])
        /\ \A i \in 1..len :
              is_upper(name[i]) \/ is_lower(name[i]) \/ is_digit(name[i]) \/ is_space(name[i])
        /\ lowers # 0
        /\ ~(uppers > len \div 2 + 1)

\* where while (q < e && is_ascii_print(radio_mem[q]) && k < sizeof(buf)-1) stops
RECURSIVE ZoneRunStop(_, _, _)
ZoneRunStop(q, k, e) ==
    IF q < e /\ is_ascii_print(MemAt(q)) /\ k < ZoneBufSz - 1
    THEN ZoneRunStop(q + 1, k + 1, e)
    ELSE q

\* zones[] after registering the run of printable bytes p..q-1: a name that
\* looks like a zone and is not yet in the list is appended while there is
\* room, cap being the length of zones[] (a name that passes looks_like_zone
\* is shorter than zones[].name, so strncmp compares whole names)
ZoneAdd(zones, p, q, cap) ==
    LET name == [i \in 1..(q - p) |-> MemAt(p + i - 1)]
    IN  IF /\ looks_like_zone(name)
           /\ \A t \in 1..Len(zones) : zones[t].name # name
           /\ Len(zones) < cap
        THEN Append(zones, [off |-> p, name |-> name])
        ELSE zones

\* while (p < e) over one block
RECURSIVE ZoneScanFrom(_, _, _, _)
ZoneScanFrom(p, e, zones, cap) ==
    IF ~(p < e) THEN zones
    ELSE IF is_ascii_print(MemAt(p))
         THEN The({ The({ ZoneScanFrom(q, e, zs, cap) : zs \in {ZoneAdd(zones, p, q, cap)} }) :
                      q \in {ZoneRunStop(p, 0, e)} })
         ELSE ZoneScanFrom(p + 1, e, zones, cap)

\* the end e of the scan of the block <<a, len>>: a + len cut at dm32_written_max
ZoneBlockEnd(blk, wmax) == IF blk[1] + blk[2] > wmax THEN wmax ELSE blk[1] + blk[2]

\* for (i = 0; i < dm32_nblocks; ++i): blocks at or above ZONES_MAX_ADDR are
\* passed over
RECURSIVE ZoneScanBlocks(_, _, _, _, _)
ZoneScanBlocks(map, i, wmax, zones, cap) ==
    IF i > Len(map) THEN zones
    ELSE IF map[i][1] >= ZONES_MAX_ADDR THEN ZoneScanBlocks(map, i + 1, wmax, zones, cap)
    ELSE The({ ZoneScanBlocks(map, i + 1, wmax, zs, cap) :
                 zs \in {ZoneScanFrom(map[i][1], ZoneBlockEnd(map[i], wmax), zones, cap)} })

\* addresses of radio_mem the zone scan reads: every byte of the scanned ranges
ZoneScanReads(map, wmax) ==
    UNION { map[i][1]..(ZoneBlockEnd(map[i], wmax) - 1) :
              i \in {i \in 1..Len(map) : map[i][1] < ZONES_MAX_ADDR} }

\* names used in the rows of a CSV given for validation: "A", "Zone 1", "B"
CsvNameA == <<65>>
CsvNameZone == <<90, 111, 110, 101, 32, 49>>
CsvNameB == <<66>>

\* the CSV given: no header line, a header of neither kind, a zones CSV (rows
\* of zone name and channel members, the members split at '|' and trimmed),
\* a channels CSV (rows of channel name)
CsvInputs ==
    { [kind |-> "empty", rows |-> <<>>],
      [kind |-> "unsupported", rows |-> <<>>],
      [kind |-> "zones",
       rows |-> <<[zone |-> CsvNameZone, members |-> <<CsvNameA, CsvNameB>>]>>],
      [kind |-> "channels", rows |-> <<[name |-> CsvNameA], [name |-> CsvNameB]>>] }

\* checked and missing as the validation loops count them: a zone row counts
\* its zone if no zones[].name equals it and every member that no
\* chans[].name equals (the members of CsvInputs are not empty); a channel
\* row counts its name likewise
CsvValidate(csv, zones, names) ==
    LET zn == { zones[t].name : t \in 1..Len(zones) }
        rows == csv.rows
    IN  IF csv.kind = "zones"
        THEN [checked |-> Len(rows),
              missing |-> Cardinality({i \in 1..Len(rows) : rows[i].zone \notin zn})
                          + Cardinality(UNION { { <<i, j>> : j \in
                                  {j \in 1..Len(rows[i].members) :
                                     rows[i].members[j] \notin names} } :
                                                i \in 1..Len(rows) })]
        ELSE IF csv.kind = "channels"
        THEN [checked |-> Len(rows),
              missing |-> Cardinality({i \in 1..Len(rows) : rows[i].name \notin names})]
        ELSE [checked |-> 0, missing |-> 0]

\* the outcome of dm32_write_csv after dm32_download has returned: zones[],
\* the channels dm32_extract_channels(chans, 128) gave, the counts of the
\* validation, and the addresses of radio_mem read
WriteCsvOutcome(csv, map, zones, ex) ==
    [slots |-> ex.slots, found |-> ex.found, count |-> ex.count,
     names |-> ExtractNames(ex, ExtractMaxc),
     zones |-> zones,
     csv |-> csv.kind,
     checked |-> CsvValidate(csv, zones, ExtractNames(ex, ExtractMaxc)).checked,
     missing |-> CsvValidate(csv, zones, ExtractNames(ex, ExtractMaxc)).missing,
     reads |-> ZoneScanReads(map, dm32_written_max) \cup ex.reads]

\* what dm32_write_csv collects from the image before it reads the CSV
dm32_write_csv_collect(map) ==
    [zones |-> ZoneScanBlocks(map, 1, dm32_written_max, <<>>, ZonesMax),
     ex |-> dm32_extract_channels(ExtractMaxc)]

-----------------------------------------------------------------------------
(* dm32_print_config, src/dm32.c:799-1000: the region map, the channel
   tables, the zone table and the channel extraction *)

\* addresses of radio_mem the region-map loops read: every byte of each
\* mapped block below dm32_written_max, in the count of the bytes that are
\* not 0xFF or not 0x00 and again in the search for sample strings
RegionMapReads(map, wmax) ==
    UNION { map[i][1]..(ZoneBlockEnd(map[i], wmax) - 1) : i \in 1..Len(map) }

\* clean[]: the zones found below CleanAddrMax whose names have 1 to
\* CleanLenMax characters, in the order found (the names of zones[] differ
\* from each other, and clean[] is as long as zones[])
ZoneClean(zones) ==
    SelectSeq(zones, LAMBDA z : z.off < CleanAddrMax /\ Len(z.name) > 0
                                  /\ Len(z.name) <= CleanLenMax)

\* the outcome of dm32_print_config with verbose set: sp is what the channel
\* table loops and dm32_extract_channels(chans, 128) handed to
\* dm32_parse_slot, zones what the zone scan found
PrintConfigOutcome(sp, map, zones) ==
    [slots |-> sp.slots, found |-> sp.found,
     zones |-> zones, clean |-> ZoneClean(zones),
     reads |-> RegionMapReads(map, dm32_written_max)
               \cup ZoneScanReads(map, dm32_written_max) \cup sp.reads]

\* dm32_print_config(radio, out, verbose) with dm32_blocks = map: without
\* verbose the function returns at once
dm32_print_config(map, verbose) ==
    IF ~verbose
    THEN [slots |-> {}, found |-> {}, zones |-> <<>>, clean |-> <<>>, reads |-> {}]
    ELSE The({ The({ PrintConfigOutcome(ScanParsed(slots, res), map, zones) :
                       res \in {[p \in LabelSlots(slots) |-> dm32_parse_slot(p)]},
                       zones \in {ZoneScanBlocks(map, 1, dm32_written_max, <<>>,
                                                  PrintZonesMax)} }) :
                 slots \in {ConfigSlots(dm32_written_max)
                               \cup ExtractSlots(DecodeLimit(dm32_written_max))} })

-----------------------------------------------------------------------------
(* dm32_download, src/dm32.c:271-334; dm32_upload, src/dm32.c:336-339 *)

\* serial_open_found fails: return
dm32_download_open_fail ==
    /\ dl.mode = "none"
    /\ dl' = [dl EXCEPT !.mode = "download", !.pc = "done", !.opened = FALSE]
    /\ UNCHANGED <<radio_mem, dm32_written_max, radio_progress, sent, calls, rt, rb, dec>>

\* steps 0-4: port opened, handshake, version probes, resource fetch, PROGRAM
dm32_download_handshake ==
    /\ dl.mode = "none"
    /\ sent' = sent \o HandshakeMessages
    /\ dl' = [dl EXCEPT !.mode = "download", !.pc = "probe", !.opened = TRUE,
                        !.progAt = Len(sent) + Len(HandshakeMessages)]
    /\ UNCHANGED <<radio_mem, dm32_written_max, radio_progress, calls, rt, rb, dec>>

\* step 5: the probe read
dm32_download_probe ==
    /\ dl.mode = "download"
    /\ dl.pc = "probe"
    /\ rt.phase = "idle"
    /\ rt' = RtStart(ProbeAddr, ProbeLen, ProbeAttempts)
    /\ calls' = Append(calls, <<ProbeAddr, ProbeLen, ProbeAttempts>>)
    /\ dl' = [dl EXCEPT !.pc = "probe_wait"]
    /\ UNCHANGED <<radio_mem, dm32_written_max, radio_progress, sent, rb, dec>>

\* the probe's result is ignored
dm32_download_probe_return ==
    /\ dl.mode = "download"
    /\ dl.pc = "probe_wait"
    /\ rt.phase = "ret"
    /\ rt' = RtIdle
    /\ dl' = [dl EXCEPT !.pc = "blocks", !.bi = 1, !.rets = Append(dl.rets, rt.ret)]
    /\ UNCHANGED <<radio_mem, dm32_written_max, radio_progress, sent, calls, rb, dec>>

\* what the block loop does after a block's read returned ret
AfterBlockBad(ret) == IF ret = 0 THEN "blocks" ELSE "done"

AfterBlock(ret) == "blocks"

\* the block loop calls dm32_read_block_retry for dm32_blocks[i]
dm32_download_block ==
    /\ dl.mode = "download"
    /\ dl.pc = "blocks"
    /\ dl.bi <= Len(dl.map)
    /\ rt.phase = "idle"
    /\ rt' = RtStart(dl.map[dl.bi][1], dl.map[dl.bi][2], BlockAttempts)
    /\ calls' = Append(calls, <<dl.map[dl.bi][1], dl.map[dl.bi][2], BlockAttempts>>)
    /\ dl' = [dl EXCEPT !.pc = "block_wait"]
    /\ UNCHANGED <<radio_mem, dm32_written_max, radio_progress, sent, rb, dec>>

\* a failure is reported on stderr; ++i
dm32_download_block_return ==
    /\ dl.mode = "download"
    /\ dl.pc = "block_wait"
    /\ rt.phase = "ret"
    /\ rt' = RtIdle
    /\ dl' = [dl EXCEPT !.pc = AfterBlock(rt.ret), !.bi = dl.bi + 1,
                        !.rets = Append(dl.rets, rt.ret)]
    /\ UNCHANGED <<radio_mem, dm32_written_max, radio_progress, sent, calls, rb, dec>>

\* the loop ends: dm32_write_slots_debug_csv() and
\* dm32_write_channels_fields_csv() run on the image, each with its own
\* fopen outcome, and dm32_download returns; dec records the slots handed to
\* dm32_parse_slot, those that gave a row, the rows of the debug CSV, and the
\* addresses of radio_mem the two writers read
dm32_download_finish ==
    /\ dl.mode = "download"
    /\ dl.pc = "blocks"
    /\ dl.bi > Len(dl.map)
    /\ \E fdbg \in BOOLEAN, ffld \in BOOLEAN :
        \E d \in {dm32_write_slots_debug_csv(fdbg)},
              r \in {dm32_write_channels_fields_csv(ffld)} :
            dec' = [op |-> "fields_csv", base |-> DM32_CHAN_BASE,
                    ret |-> Cardinality(r.found),
                    reads |-> d.reads \cup r.reads,
                    out |-> [slots |-> r.slots, found |-> r.found, reads |-> r.reads,
                             debug |-> d, files |-> <<fdbg, ffld>>]]
    /\ dl' = [dl EXCEPT !.pc = "done"]
    /\ UNCHANGED <<radio_mem, dm32_written_max, radio_progress, sent, calls, rt, rb>>

\* dm32_write_csv(radio, csv) after its call of dm32_download has returned:
\* the zone scan over the mapped blocks, dm32_extract_channels(chans, 128) and
\* the validation of the CSV given, which reports on stderr.  dm32_download
\* is the first statement of dm32_write_csv, so a download whose caller is
\* dm32_write_csv differs from one the driver table started only in this step.
dm32_write_csv_validate ==
    /\ dl.mode = "download"
    /\ dl.pc = "done"
    /\ \E col \in {dm32_write_csv_collect(dl.map)} :
        \E csv \in CsvInputs :
            \E r \in {WriteCsvOutcome(csv, dl.map, col.zones, col.ex)} :
                dec' = [op |-> "write_csv", base |-> DM32_CHAN_BASE, ret |-> r.count,
                        reads |-> r.reads, out |-> r]
    /\ dl' = [dl EXCEPT !.mode = "write_csv"]
    /\ UNCHANGED <<radio_mem, dm32_written_max, radio_progress, sent, calls, rt, rb>>

\* prints "DM32 upload not implemented."
dm32_upload ==
    /\ dl.mode = "none"
    /\ dl' = [dl EXCEPT !.mode = "upload", !.pc = "done"]
    /\ UNCHANGED <<radio_mem, dm32_written_max, radio_progress, sent, calls, rt, rb, dec>>

\* dm32_read_block_retry called on its own with arguments from the input sets
direct_call ==
    /\ dl.mode = "none"
    /\ rt.phase = "idle"
    /\ \E b \in DirectBlocks, n \in DirectAttempts :
        /\ rt' = RtStart(b[1], b[2], n)
        /\ calls' = Append(calls, <<b[1], b[2], n>>)
    /\ dl' = [dl EXCEPT !.mode = "direct"]
    /\ UNCHANGED <<radio_mem, dm32_written_max, radio_progress, sent, rb, dec>>

direct_return ==
    /\ dl.mode = "direct"
    /\ rt.phase = "ret"
    /\ rt' = RtIdle
    /\ dl' = [dl EXCEPT !.pc = "done", !.rets = Append(dl.rets, rt.ret)]
    /\ UNCHANGED <<radio_mem, dm32_written_max, radio_progress, sent, calls, rb, dec>>

-----------------------------------------------------------------------------

Next ==
    \/ dm32_read_header_sync_junk
    \/ dm32_read_header_sync_empty
    \/ dm32_read_header_sync_marker
    \/ dm32_read_block_request
    \/ dm32_read_block_validate
    \/ dm32_read_block_chunk
    \/ dm32_read_block_done
    \/ dm32_read_block_retry_next
    \/ dm32_read_block_retry_exhausted
    \/ dm32_download_open_fail
    \/ dm32_download_handshake
    \/ dm32_download_probe
    \/ dm32_download_probe_return
    \/ dm32_download_block
    \/ dm32_download_block_return
    \/ dm32_download_finish
    \/ dm32_write_csv_validate
    \/ dm32_upload
    \/ direct_call
    \/ direct_return

Spec == Init /\ [][Next]_vars

\* the steps the program takes by itself once it has been called: every
\* serial_read returns within its timeout, so a transfer and the download
\* around it always go on.  Whether the caller of a download was
\* dm32_write_csv is the caller's matter.
Running ==
    \/ dm32_read_header_sync_junk
    \/ dm32_read_header_sync_empty
    \/ dm32_read_header_sync_marker
    \/ dm32_read_block_request
    \/ dm32_read_block_validate
    \/ dm32_read_block_chunk
    \/ dm32_read_block_done
    \/ dm32_read_block_retry_next
    \/ dm32_read_block_retry_exhausted
    \/ dm32_download_probe
    \/ dm32_download_probe_return
    \/ dm32_download_block
    \/ dm32_download_block_return
    \/ dm32_download_finish
    \/ direct_return

FairSpec == Spec /\ WF_vars(Running)

-----------------------------------------------------------------------------
(* Decoder inputs: captured images with one channel slot *)

Rep(n, b) == [i \in 1..n |-> b]

\* slot labels: short, the longest that fits name[32], and one byte longer
SlotLabels == { <<65>>, <<82, 73, 67>>, Rep(NameSz - 1, 65), Rep(NameSz, 65), <<>> }

\* what follows the label: the terminator, nothing, or a non-printable byte
SlotTerminators == { <<0>>, <<>>, <<1>> }

\* bytes of the gap that are neither filler nor printable nor BCD digits
GapByte == 170

\* between terminator and frequencies: filler of 0, 1, 3, 17 bytes, or a gap
\* of other bytes that reaches past the scan window
SlotPads == { <<>>, <<255>>, <<0, 0, 0>>, Rep(DM32_LABEL_PAD_MAX + 1, 255),
              Rep(DM32_SIG_SCAN_MAX + 2, GapByte) }

\* RX and TX words: 443.58750 / 448.58750, 146.52000 simplex, 1.00000 / 0,
\* 443.58750 / 301.00000, 443.58750 / 453.58750, 50.00000 / 70.00000,
\* 443.58750 / a word that is not BCD
SlotFreqs ==
    { <<80, 135, 53, 68, 80, 135, 133, 68>>,
      <<0, 32, 101, 20, 0, 32, 101, 20>>,
      <<0, 0, 16, 0, 0, 0, 0, 0>>,
      <<80, 135, 53, 68, 0, 0, 16, 48>>,
      <<80, 135, 53, 68, 80, 135, 53, 69>>,
      <<0, 0, 0, 5, 0, 0, 0, 7>>,
      <<80, 135, 53, 68, 255, 255, 255, 255>> }

\* parameter blocks of src/dm32_reference/channel_layout.md: "RIC RVA Metro",
\* "RIC Monitor TS2" and "RIC TAC B"
ParamsRicMetro == <<16, 0, 11, 32, 32, 1, 0, 128, 0, 255, 255, 255, 255, 192, 1, 0>>

ParamsRicMonitor == <<20, 0, 11, 32, 32, 17, 0, 129, 0, 255, 255, 255, 255, 192, 1, 0>>

ParamsRicTacB == <<28, 0, 27, 32, 32, 3, 0, 128, 0, 255, 255, 255, 255, 224, 1, 0>>

\* parameter blocks: the documented ones, the digital template with the
\* filler one byte later, and the analog template with no 0xFF filler
SlotParams ==
    { ParamsRicMetro, ParamsRicMonitor, ParamsRicTacB,
      <<20, 0, 0, 0, 48, 1, 0, 129, 0, 0, 255, 255, 255, 255, 1, 0>>,
      <<4, 128, 0, 0, 48, 1, 0, 128, 0, 0, 0, 0, 0, 0, 1, 0>> }

\* slot indices an image is placed at
ImageSlots == {1}

\* the bytes of one slot
SlotBytes == { l \o t \o p \o f \o q :
                 l \in SlotLabels, t \in SlotTerminators, p \in SlotPads,
                 f \in SlotFreqs, q \in SlotParams }

\* high-water marks tried for a slot of n bytes at address p: nothing
\* captured, the slot cut anywhere in its last 14 bytes, the whole slot,
\* and everything up to the fallback limit
ImageMarks(p, n) == {0, FallbackLimit} \cup { p + n - d : d \in 0..14 }

\* the image after capturing wmax bytes of which the slot bytes b lie at p
ImageOf(p, b, wmax) ==
    [a \in p..Min(p + Len(b) - 1, wmax - 1) |-> b[a - p + 1]]

DecodeInit ==
    /\ \E i \in ImageSlots, b \in SlotBytes :
         \E w \in ImageMarks(SlotAddr(i), Len(b)) :
            /\ dm32_written_max = w
            /\ radio_mem = ImageOf(SlotAddr(i), b, w)
    /\ radio_progress = 0
    /\ sent = <<>>
    /\ calls = <<>>
    /\ dl = [mode |-> "decode", pc |-> "idle", map |-> <<>>, bi |-> 0, progAt |-> 0,
             opened |-> FALSE, rets |-> <<>>]
    /\ rt = RtIdle
    /\ rb = RbIdle
    /\ dec = DecIdle

\* slot addresses the decoders are called with
CallSlots == { SlotAddr(i) : i \in 0..2 }

call_locate_signature ==
    /\ dec.op = "none"
    /\ \E p \in CallSlots : \E r \in {dm32_locate_signature(p)} :
            dec' = [op |-> "locate", base |-> p, ret |-> r.ret, reads |-> r.reads, out |-> r]
    /\ UNCHANGED <<radio_mem, dm32_written_max, radio_progress, sent, calls, dl, rt, rb>>

call_parse_slot ==
    /\ dec.op = "none"
    /\ \E p \in CallSlots : \E r \in {dm32_parse_slot(p)} :
            dec' = [op |-> "parse", base |-> p, ret |-> r.ret, reads |-> r.reads, out |-> r]
    /\ UNCHANGED <<radio_mem, dm32_written_max, radio_progress, sent, calls, dl, rt, rb>>

call_extract_channels ==
    /\ dec.op = "none"
    /\ \E r \in {dm32_extract_channels(ExtractMaxc)} :
            dec' = [op |-> "extract", base |-> DM32_CHAN_BASE, ret |-> r.count,
                    reads |-> r.reads, out |-> r]
    /\ UNCHANGED <<radio_mem, dm32_written_max, radio_progress, sent, calls, dl, rt, rb>>

DecodeNext ==
    \/ call_locate_signature
    \/ call_parse_slot
    \/ call_extract_channels

SpecDecode == DecodeInit /\ [][DecodeNext]_vars

-----------------------------------------------------------------------------
(* Decoder inputs: one channel slot per image, the parameter window varying
   byte by byte around the two leading-byte templates *)

\* values of the bytes 0..5 and 7 of the window: those of the templates
\* (14 00 00 00 30|34 01, 04 80 00 00 30 01) and of the documented blocks
WindowByteChoices ==
    <<{20, 4, 16}, {0, 128}, {0, 11}, {0, 32}, {48, 52, 32}, {1, 19, 0}, {0}, {128, 129}>>

\* bytes 8..15: those of the documented blocks (0xFF at 9..12), and the
\* filler one byte later (0xFF at 10..13, where the scoring looks for it)
WindowTails == { <<0, 255, 255, 255, 255, 192, 1, 0>>, <<0, 0, 255, 255, 255, 255, 1, 0>> }

ParamWindows ==
    { <<b0, b1, b2, b3, b4, b5, b6, b7>> \o t :
        b0 \in WindowByteChoices[1], b1 \in WindowByteChoices[2],
        b2 \in WindowByteChoices[3], b3 \in WindowByteChoices[4],
        b4 \in WindowByteChoices[5], b5 \in WindowByteChoices[6],
        b6 \in WindowByteChoices[7], b7 \in WindowByteChoices[8],
        t \in WindowTails }

\* RX and TX words 443.58750 / 448.58750
ParamFreqs == <<80, 135, 53, 68, 80, 135, 133, 68>>

\* 4 bytes that are neither filler nor BCD, then the RX word 50.00000
ParamGapFreqs == <<170, 170, 170, 170, 0, 0, 0, 5>>

\* a slot of DM32_CHAN_STRIDE bytes: label "A", terminator, then RX, TX and
\* the window, or RX and the window in the place of TX, or 4 other bytes, RX
\* and the window in the place of TX, then zeros
ParamSlotBytes ==
    { <<65, 0>> \o ParamFreqs \o w \o Rep(DM32_CHAN_STRIDE - 26, 0) : w \in ParamWindows }
    \cup { <<65, 0>> \o SubSeq(ParamFreqs, 1, 4) \o w \o Rep(DM32_CHAN_STRIDE - 22, 0) :
             w \in ParamWindows }
    \cup { <<65, 0>> \o ParamGapFreqs \o w \o Rep(DM32_CHAN_STRIDE - 26, 0) :
             w \in ParamWindows }

ParamInit ==
    /\ \E i \in ImageSlots, b \in ParamSlotBytes :
            /\ dm32_written_max = SlotAddr(i) + Len(b)
            /\ radio_mem = ImageOf(SlotAddr(i), b, SlotAddr(i) + Len(b))
    /\ radio_progress = 0
    /\ sent = <<>>
    /\ calls = <<>>
    /\ dl = [mode |-> "decode", pc |-> "idle", map |-> <<>>, bi |-> 0, progAt |-> 0,
             opened |-> FALSE, rets |-> <<>>]
    /\ rt = RtIdle
    /\ rb = RbIdle
    /\ dec = DecIdle

SpecParams == ParamInit /\ [][DecodeNext]_vars

-----------------------------------------------------------------------------
(* Properties *)

\* the header a device sends when it echoes the request cmd
Echo(cmd) == [j \in 1..6 |-> IF j = 1 THEN MarkerByte ELSE cmd[j]]

\* the bytes of mem outside [lo, lo + n) are those of old, and no others exist
SameOutside(mem, old, lo, n) ==
    \A a \in (DOMAIN mem) \cup (DOMAIN old) :
        a \notin lo..(lo + n - 1) => (a \in DOMAIN mem /\ a \in DOMAIN old /\ mem[a] = old[a])

\* C1: in a download session no buffer handed to serial_write starts with the
\* write opcode 0x57, every buffer written after program-mode entry is a
\* 6-byte request starting with 0x52, and dm32_upload writes nothing.
C1_NeverSendsWrite ==
    /\ dl.mode = "download" =>
        /\ \A i \in 1..Len(sent) : sent[i][1] # MarkerByte
        /\ \A i \in 1..Len(sent) :
            i > dl.progAt => (Len(sent[i]) = 6 /\ sent[i][1] = ReadOpcode)
        /\ ~dl.opened => sent = <<>>
    /\ dl.mode = "upload" => sent = <<>>

\* a finished session that sent read requests after entering program mode, one
\* of its blocks having failed
C1_Witness ==
    /\ dl.mode = "download"
    /\ dl.pc = "done"
    /\ dl.opened
    /\ dl.progAt = Len(HandshakeMessages)
    /\ Len(sent) >= dl.progAt + 3
    /\ \E i \in 1..Len(dl.rets) : dl.rets[i] = -1

\* C2: dm32_read_block with addr + len above 2 MiB returns -1 without any
\* serial_write or serial_read call and leaves radio_mem and dm32_written_max
\* as they were; with addr + len equal to 2 MiB the request is written.
C2_OutOfRangeRejected ==
    rb.phase # "idle" =>
        /\ rb.addr + rb.len > MemBound =>
            /\ rb.phase = "ret"
            /\ rb.ret = -1
            /\ ~rb.wrote
            /\ ~rb.didRead
            /\ Len(sent) = rb.nsent0
            /\ radio_mem = rb.mem0
            /\ dm32_written_max = rb.wmax0
        /\ rb.addr + rb.len <= MemBound =>
            /\ rb.wrote
            /\ Len(sent) = rb.nsent0 + 1
            /\ sent[Len(sent)] = rb.cmd

\* a rejected call whose range ends one byte above the bound
C2_Witness ==
    /\ rb.phase = "ret"
    /\ rb.addr + rb.len = MemBound + 1
    /\ rb.ret = -1

\* C3: once the marker was read, a header in which one of the 5 bytes after
\* the marker differs from the request makes dm32_read_block return -1 with
\* no payload byte stored and the high-water mark unchanged.
C3_HeaderMismatchFails ==
    (rb.hdr # <<>> /\ \E k \in 2..6 : rb.hdr[k] # rb.cmd[k]) =>
        /\ rb.phase \in {"validate", "ret"}
        /\ rb.phase = "ret" => rb.ret = -1
        /\ rb.off = 0
        /\ radio_mem = rb.mem0
        /\ dm32_written_max = rb.wmax0

\* a call that returned after a header whose last byte (length high) alone
\* differs
C3_Witness ==
    /\ rb.phase = "ret"
    /\ rb.hdr # <<>>
    /\ rb.hdr[6] # rb.cmd[6]
    /\ \A k \in 2..5 : rb.hdr[k] = rb.cmd[k]

\* C4: dm32_read_block returns 0 only after a header echoing the request and
\* exactly len payload bytes, byte i of the payload being stored at addr + i;
\* a chunk read that returns 0 bytes makes it return -1 whatever was stored
\* before.
C4_SuccessMeansWholePayload ==
    /\ (rb.phase = "ret" /\ rb.ret = 0) =>
        /\ rb.hdr = Echo(rb.cmd)
        /\ rb.off = rb.len
        /\ rb.toread = 0
        /\ ~rb.stalled
        /\ \A i \in 0..(rb.len - 1) :
            /\ rb.addr + i \in DOMAIN radio_mem
            /\ radio_mem[rb.addr + i] = Pay(rb.seed, i)
    /\ rb.stalled => (rb.phase = "ret" /\ rb.ret = -1 /\ rb.off < rb.len)
    /\ rb.phase = "payload" => \A i \in 0..(rb.off - 1) :
            /\ rb.addr + i \in DOMAIN radio_mem
            /\ radio_mem[rb.addr + i] = Pay(rb.seed, i)

\* a read longer than one chunk buffer that succeeded
C4_Witness ==
    /\ rb.phase = "ret"
    /\ rb.ret = 0
    /\ rb.len > ChunkMax

\* C5: dm32_read_block_retry makes at most `attempts` calls of dm32_read_block,
\* none after the first that returns 0, returns 0 iff one returned 0, and on
\* success the bytes of [addr, addr + len) are the payload of the successful
\* attempt while every other byte is as before the call.
C5_RetryStopsAtFirstSuccess ==
    rt.phase # "idle" =>
        /\ rt.made <= rt.attempts
        /\ rt.made = rt.i + (IF rb.phase # "idle" \/ (rt.phase = "ret" /\ rt.ret = 0)
                             THEN 1 ELSE 0)
        /\ rt.phase = "ret" => rb.phase = "idle"
        /\ (rt.phase = "ret" /\ rt.ret = -1) => rt.i = rt.attempts
        /\ (rt.phase = "ret" /\ rt.ret = 0) =>
            /\ rt.i < rt.attempts
            /\ \A a \in rt.addr..(rt.addr + rt.len - 1) :
                /\ a \in DOMAIN radio_mem
                /\ radio_mem[a] = Pay(rt.okSeed, a - rt.addr)
            /\ SameOutside(radio_mem, rt.mem0, rt.addr, rt.len)

\* attempts 1 and 2 failed, one of them after storing bytes of another payload,
\* and attempt 3 succeeded
C5_Witness ==
    /\ rt.phase = "ret"
    /\ rt.ret = 0
    /\ rt.attempts = 3
    /\ rt.i = 2
    /\ rt.len > 0
    /\ rt.dirtySeed \notin {0, rt.okSeed}

\* the dm32_read_block_retry calls of a session with block map `map`, in order
ExpectedCalls(map) ==
    <<<<ProbeAddr, ProbeLen, ProbeAttempts>>>>
    \o [k \in 1..Len(map) |-> <<map[k][1], map[k][2], BlockAttempts>>]

IsPrefix(p, q) == Len(p) <= Len(q) /\ \A i \in 1..Len(p) : p[i] = q[i]

\* C6: in a download session whose port opened, the probe and then every
\* block of the map, in map order, is handed to dm32_read_block_retry before
\* the session ends, whatever the earlier reads returned; the request of every
\* block inside the memory bound is written to the device.
C6_EveryBlockRequested ==
    /\ [](dl.mode = "download" => IsPrefix(calls, ExpectedCalls(dl.map)))
    /\ []((dl.mode = "download" /\ dl.opened) =>
            <>(/\ dl.pc = "done"
               /\ calls = ExpectedCalls(dl.map)
               /\ \A k \in 1..Len(dl.map) :
                    dl.map[k][1] + dl.map[k][2] <= MemBound =>
                        \E i \in (dl.progAt + 1)..Len(sent) :
                            sent[i] = <<82, (dl.map[k][1] \div 65536) % 256,
                                        (dl.map[k][1] \div 256) % 256,
                                        dl.map[k][1] % 256,
                                        dl.map[k][2] % 256,
                                        (dl.map[k][2] \div 256) % 256>>))

\* a finished session in which the probe and the first block failed for good
\* and the last block was read
C6_Witness ==
    /\ dl.mode = "download"
    /\ dl.pc = "done"
    /\ dl.rets = <<-1, -1, 0>>
    /\ calls = ExpectedCalls(dl.map)

\* C7: in header synchronisation a run of non-marker bytes that leaves the
\* discard count within the budget keeps the scan going and stores nothing;
\* the marker followed by 5 bytes ends the scan with the count unchanged; and a
\* header echoing the request, after such a run, starts payload reception.
C7_ResyncSkipsJunk ==
    [][ /\ (rb.phase = "sync" /\ rb'.skip > rb.skip /\ rb'.skip <= SkipMax) =>
            /\ rb'.phase = "sync"
            /\ rb'.waited = rb.waited
            /\ UNCHANGED <<radio_mem, dm32_written_max, sent>>
        /\ (rb.phase = "sync" /\ rb'.hdr # <<>>) =>
            /\ rb'.phase = "validate"
            /\ rb'.skip = rb.skip
        /\ (rb.phase = "validate" /\ rb.hdr = Echo(rb.cmd)) =>
            /\ rb'.phase = "payload"
            /\ rb'.toread = rb.len
            /\ rb'.off = 0 ]_vars

\* payload bytes stored after 100000 junk bytes were discarded
C7_Witness ==
    /\ rb.phase = "payload"
    /\ rb.skip = SkipMax
    /\ rb.hdr = Echo(rb.cmd)
    /\ rb.off > 0

\* number of empty reads that use up the budget
EmptyReadsMax == SyncTimeoutMs \div EmptyReadCostMs

C8_Bounded ==
    rb.phase # "idle" =>
        /\ rb.waited = EmptyReadCostMs * rb.empties
        /\ rb.empties <= EmptyReadsMax
        /\ rb.skip <= SkipMax + 1
        /\ rb.phase = "sync" => (rb.skip <= SkipMax /\ rb.empties < EmptyReadsMax)
        /\ (rb.skip > SkipMax \/ rb.empties >= EmptyReadsMax) =>
            (rb.phase = "ret" /\ rb.ret = -1 /\ rb.hdr = <<>>)
        /\ rb.phase = "payload" => (rb.toread >= 0 /\ rb.off + rb.toread = rb.len)

\* C8: header synchronisation returns -1 at the 100001st discarded byte or at
\* the 20th empty read (4000 ms at 200 ms each), whichever comes first; every
\* iteration that does not end the scan counts one of the two up; and every
\* dm32_read_block call returns.
C8_SyncTerminates ==
    /\ []C8_Bounded
    /\ [][ (rb.phase = "sync" /\ rb'.phase = "sync") =>
            \/ (rb'.skip > rb.skip /\ rb'.empties = rb.empties)
            \/ (rb'.empties > rb.empties /\ rb'.skip = rb.skip) ]_vars
    /\ [][ (rb.phase = "payload" /\ rb'.phase = "payload") =>
            rb'.toread < rb.toread ]_vars
    /\ (rb.phase # "idle") ~> (rb.phase = "ret")

\* the scan gave up on the 100001st junk byte, 19 empty reads having been
\* interleaved
C8_Witness ==
    /\ rb.phase = "ret"
    /\ rb.why = "skip"
    /\ rb.skip = SkipMax + 1
    /\ rb.empties = EmptyReadsMax - 1

\* C9: dm32_written_max never decreases, after each stored chunk is the
\* maximum of its former value and addr + bytes received so far, and never
\* exceeds 2 MiB.
C9_HighWaterMonotonic ==
    /\ dm32_written_max <= MemBound
    /\ [][ /\ dm32_written_max' >= dm32_written_max
           /\ dm32_written_max' <= MemBound
           /\ rb'.off > rb.off =>
                dm32_written_max' = Max(dm32_written_max, rb.addr + rb'.off)
           /\ rb'.off <= rb.off => dm32_written_max' = dm32_written_max ]_vars

\* a chunk stored below the mark set by an earlier block
C9_Witness ==
    /\ rb.phase = "payload"
    /\ rb.off > 0
    /\ dm32_written_max > rb.addr + rb.len


\* C10: no decoding component (signature locator, slot decoder, channel
\* extraction) reads radio_mem at an address greater than or equal to the
\* high-water mark, whatever the image, the mark and the slot address
C10_NoReadAtOrAboveMark ==
    \A a \in dec.reads : a < dm32_written_max

-----------------------------------------------------------------------------
(* Images for the consumers of the slot decoder *)

\* slots holding the channel of an image: the first, the last of the
\* window, the one after it, and the last below ExtractEnd
ScanImageSlots ==
    {0, DM32_CHAN_WINDOW - 1, DM32_CHAN_WINDOW,
     (ExtractEnd - 1 - DM32_CHAN_BASE) \div DM32_CHAN_STRIDE}

\* the label "A", the terminator, RX and TX, the parameters; a slot whose
\* label "Zone 1" looks like a zone name; and a slot whose RX word is
\* 00 00 00 80, the float32 -0.0
ScanSlotBytes ==
    { l \o <<0>> \o f \o q :
        l \in {CsvNameA},
        f \in SlotFreqs,
        q \in {ParamsRicMetro, <<20, 0, 0, 0, 48, 1, 0, 129, 0, 0, 255, 255, 255, 255, 1, 0>>} }
    \cup { l \o <<0>> \o f \o ParamsRicMetro :
             l \in {CsvNameZone}, f \in {<<80, 135, 53, 68, 80, 135, 133, 68>>} }
    \cup { l \o <<0>> \o f \o ParamsRicMetro :
             l \in {CsvNameA}, f \in {<<0, 0, 0, 128, 0, 0, 0, 0>>} }

\* high-water marks: nothing captured, one and two bytes of the slot, the
\* whole slot, the fallback limit, the end of the window and two bytes more,
\* the end of the extraction loop, and the whole image
ScanMarks(p, n) ==
    {0, p + 1, p + 2, p + n, FallbackLimit, WindowEnd, WindowEnd + 2, ExtractEnd, MemBound}

\* a download at the end of its block loop, the image captured being one of
\* the above and the block map naming the slot that holds the channel

ScanInit ==
    /\ \E i \in ScanImageSlots, b \in ScanSlotBytes :
         \E w \in ScanMarks(SlotAddr(i), Len(b)) :
            /\ dm32_written_max = w
            /\ radio_mem = ImageOf(SlotAddr(i), b, w)
            /\ dl = [mode |-> "download", pc |-> "blocks",
                     map |-> <<<<SlotAddr(i), DM32_CHAN_STRIDE>>>>, bi |-> 2, progAt |-> 0,
                     opened |-> TRUE, rets |-> <<>>]
    /\ radio_progress = 0
    /\ sent = <<>>
    /\ calls = <<>>
    /\ rt = RtIdle
    /\ rb = RbIdle
    /\ dec = DecIdle

call_print_config ==
    /\ dec.op = "none"
    /\ \E verbose \in BOOLEAN : \E r \in {dm32_print_config(dl.map, verbose)} :
            dec' = [op |-> "print_config", base |-> DM32_CHAN_BASE, ret |-> Cardinality(r.found),
                    reads |-> r.reads, out |-> r]
    /\ UNCHANGED <<radio_mem, dm32_written_max, radio_progress, sent, calls, dl, rt, rb>>

ScanNext ==
    \/ dm32_download_finish
    \/ dm32_write_csv_validate
    \/ call_print_config
    \/ call_extract_channels

SpecScan == ScanInit /\ [][ScanNext]_vars

-----------------------------------------------------------------------------
(* The frequency codec applied to one 4-byte word of the image *)

\* the word packing the 8 decimal digits of v (10 Hz units) two per byte, the
\* least significant pair in byte 0 and the most significant pair in byte 3
\* (src/dm32_reference/channel_layout.md:30-32)
EncodeBcd(v) ==
    [i \in 1..4 |-> LET pair == (v \div 100^(i - 1)) % 100
                    IN  16 * (pair \div 10) + (pair % 10)]

\* digit pairs the encoded values are built from
BcdPairs == {0, 12, 14, 25, 35, 44, 50, 87}

BcdValues ==
    { 1000000 * p3 + 10000 * p2 + 100 * p1 + p0 :
        p3 \in BcdPairs, p2 \in BcdPairs, p1 \in BcdPairs, p0 \in BcdPairs }

\* bytes of the words that are not BCD: a high nibble, a low nibble, both
RawBytes == {10, 80, 159, 255}

RawWords == { <<b0, b1, b2, b3>> : b0 \in RawBytes, b1 \in RawBytes, b2 \in RawBytes,
                                   b3 \in RawBytes } \ { <<80, 80, 80, 80>> }

FreqWords == { EncodeBcd(v) : v \in BcdValues } \cup RawWords

\* where the word lies
FreqAt == DM32_CHAN_BASE

\* the word of the image at a
WordAt(a) == << MemAt(a), MemAt(a + 1), MemAt(a + 2), MemAt(a + 3) >>

FreqInit ==
    /\ \E w \in FreqWords : radio_mem = [a \in FreqAt..(FreqAt + 3) |-> w[a - FreqAt + 1]]
    /\ dm32_written_max = FreqAt + 4
    /\ radio_progress = 0
    /\ sent = <<>>
    /\ calls = <<>>
    /\ dl = [mode |-> "decode", pc |-> "idle", map |-> <<>>, bi |-> 0, progAt |-> 0,
             opened |-> FALSE, rets |-> <<>>]
    /\ rt = RtIdle
    /\ rb = RbIdle
    /\ dec = DecIdle

call_bcd_mhz ==
    /\ dec.op = "none"
    /\ dec' = [op |-> "bcd_mhz", base |-> FreqAt, ret |-> bcd_mhz(FreqAt),
               reads |-> FreqAt..(FreqAt + 3), out |-> <<>>]
    /\ UNCHANGED <<radio_mem, dm32_written_max, radio_progress, sent, calls, dl, rt, rb>>

\* rx_hint: 0.0, the ends of the plausible range and the values next to them
FreqHints == {0, Bcd30MHz - 1, Bcd30MHz, Bcd1000MHz, Bcd1000MHz + 1}

call_decode_freq_mhz ==
    /\ dec.op = "none"
    /\ \E h \in FreqHints :
          dec' = [op |-> "decode_freq_mhz", base |-> FreqAt, ret |-> decode_freq_mhz(FreqAt, h),
                  reads |-> FreqAt..(FreqAt + 3), out |-> [hint |-> h]]
    /\ UNCHANGED <<radio_mem, dm32_written_max, radio_progress, sent, calls, dl, rt, rb>>

FreqNext ==
    \/ call_bcd_mhz
    \/ call_decode_freq_mhz

SpecFreq == FreqInit /\ [][FreqNext]_vars

\* C20: for an in-bound (address, length) every dm32_read_block attempt writes
\* exactly one request, of exactly the 6 bytes 0x52, address bits 23..16,
\* 15..8, 7..0, length low byte, length high byte, and the header it accepts
\* is exactly 0x57 followed by the same 5 bytes
C20_RequestAndHeaderFormat ==
    (rb.phase # "idle" /\ rb.addr + rb.len <= 2097152) =>
        LET req == << 82, (rb.addr \div 65536) % 256, (rb.addr \div 256) % 256,
                      rb.addr % 256, rb.len % 256, (rb.len \div 256) % 256 >>
        IN  /\ Len(sent) = rb.nsent0 + 1
            /\ sent[Len(sent)] = req
            /\ Len(sent[Len(sent)]) = 6
            /\ (rb.phase = "payload" \/ (rb.phase = "ret" /\ rb.why \in {"ok", "stall"})) =>
                  rb.hdr = << 87, req[2], req[3], req[4], req[5], req[6] >>

\* the block of 514 bytes at 0x007001 requested and its header accepted
C20_Witness ==
    /\ rb.phase = "payload"
    /\ rb.addr = 28673
    /\ rb.len = 514
    /\ sent[Len(sent)] = <<82, 0, 112, 1, 2, 2>>
    /\ rb.hdr = <<87, 0, 112, 1, 2, 2>>

-----------------------------------------------------------------------------
(* Properties of the decoders *)

\* the address a lies in the captured region
Captured(a) == a < dm32_written_max

\* length of the run of captured printable bytes at p, up to the label bound
PrintableRun(p) ==
    CHOOSE n \in 0..(NameSz - 1) :
        /\ \A i \in 0..(n - 1) : Captured(p + i) /\ is_ascii_print(MemAt(p + i))
        /\ n = NameSz - 1 \/ ~(Captured(p + n) /\ is_ascii_print(MemAt(p + n)))

\* C11: a slot that starts with printable bytes whose run (of at most 31
\* characters, inside the captured region) is not followed by a captured zero
\* byte yields -1 from dm32_locate_signature and from dm32_parse_slot; this
\* covers a run followed by a non-zero non-printable byte
C11_UnterminatedLabelNotFound ==
    dec.op \in {"locate", "parse"} =>
        LET n == PrintableRun(dec.base)
        IN  (n >= 1 /\ ~(Captured(dec.base + n) /\ MemAt(dec.base + n) = 0))
                => dec.ret = -1

\* the slot decoder rejects a label of 31 characters followed by a printable one
C11_Witness ==
    /\ dec.op = "parse"
    /\ PrintableRun(dec.base) = NameSz - 1
    /\ Captured(dec.base + NameSz - 1)
    /\ is_ascii_print(MemAt(dec.base + NameSz - 1))
    /\ dec.ret = -1

\* C12: an offset returned by dm32_locate_signature is not below the post-pad
\* cursor q and lies inside the window of DM32_SIG_SCAN_MAX = 32 bytes that
\* starts at q
C12_SignatureInScanWindow ==
    (dec.op = "locate" /\ dec.ret = 0) =>
        /\ dec.out.sig >= dec.out.q
        /\ dec.out.sig < dec.out.q + DM32_SIG_SCAN_MAX

\* the candidates of highest score, and among them the one the scan meets first
\* (the scan meets new offsets in increasing order)
TopCandidates(cand) ==
    { s \in DOMAIN cand : \A t \in DOMAIN cand : cand[t].score <= cand[s].score }

FirstTop(cand) ==
    { s \in TopCandidates(cand) : \A t \in TopCandidates(cand) : s <= t }

\* the acceptance rule applied to the winner of the candidates cand
C13_Rule(cand) ==
    IF \E s \in FirstTop(cand) :
          cand[s].score >= 9 \/ (cand[s].score >= 6 /\ cand[s].param_ok)
    THEN dec.ret = 0 /\ \A s \in FirstTop(cand) : dec.out.sig = cand[s].sig
    ELSE dec.ret = -1

\* C13: dm32_locate_signature returns a signature iff the single
\* highest-scoring candidate of the whole scan has score >= 9, or score >= 6
\* with its own parameter pattern confirmed; the offset returned is that
\* candidate's, and in every other case the result is -1
C13_AcceptBestCandidate ==
    dec.op = "locate" =>
        IF dec.out.q = 0 THEN dec.ret = -1
        ELSE \A cand \in {CandidateTable(dec.out.q, DecodeLimit(dm32_written_max))} :
                C13_Rule(cand)

\* a candidate of score 6..8 accepted on the strength of its parameter pattern
C13_Witness ==
    /\ dec.op = "locate"
    /\ dec.ret = 0
    /\ dec.out.score \in 6..8
    /\ dec.out.param_ok

\* C14: bcd_mhz round-trips: for a value v of 8 decimal digits in 10 Hz units,
\* the word holding its digits two per byte, most significant pair in byte 3
\* and least significant pair in byte 0, decodes to v (bytes 50 87 35 44 to
\* 443.58750 MHz); a word with a nibble above 9 decodes to 0
C14_BcdRoundTrip ==
    dec.op = "bcd_mhz" =>
        /\ \A v \in BcdValues : WordAt(dec.base) = EncodeBcd(v) => dec.ret = v
        /\ (\E i \in 1..4 : WordAt(dec.base)[i] \div 16 > 9 \/ WordAt(dec.base)[i] % 16 > 9)
               => dec.ret = 0

\* the word 50 87 35 44 decoded to 443.58750 MHz
C14_Witness ==
    /\ dec.op = "bcd_mhz"
    /\ WordAt(dec.base) = <<80, 135, 53, 68>>
    /\ WordAt(dec.base) = EncodeBcd(44358750)
    /\ dec.ret = 44358750

\* the value lies in [30, 1000] MHz
InRange(v) == v >= 3000000 /\ v <= 100000000

\* the result the claim gives for the readings v1 (reversed order) and v2
\* (forward order) of the word and the hint h
C15_Expected(v1, v2, h) ==
    IF InRange(v1) /\ ~InRange(v2) THEN v1
    ELSE IF ~InRange(v1) /\ InRange(v2) THEN v2
    ELSE IF InRange(v1) /\ InRange(v2)
         THEN (IF dm32_band_score(v2) > dm32_band_score(v1) THEN v2 ELSE v1)
    ELSE IF InRange(h) THEN h
    ELSE 0

\* C15: decode_freq_mhz returns the reversed-order BCD value when only it is
\* in [30, 1000] MHz, the forward-order value when only it is, the one of
\* higher band score when both are (the reversed-order value on equal
\* scores), and otherwise the hint if that is in [30, 1000] MHz and else 0;
\* so with a hint that is 0 or in [30, 1000] MHz the result is 0 or in
\* [30, 1000] MHz
C15_DecodeFrequency ==
    dec.op = "decode_freq_mhz" =>
        /\ dec.ret = C15_Expected(bcd_mhz(dec.base), bcd_mhz_alt(dec.base), dec.out.hint)
        /\ (dec.out.hint = 0 \/ InRange(dec.out.hint)) => (dec.ret = 0 \/ InRange(dec.ret))

\* both readings plausible and different, with equal band scores: the
\* reversed-order value is returned
C15_Witness ==
    /\ dec.op = "decode_freq_mhz"
    /\ InRange(bcd_mhz(dec.base)) /\ InRange(bcd_mhz_alt(dec.base))
    /\ bcd_mhz(dec.base) # bcd_mhz_alt(dec.base)
    /\ dm32_band_score(bcd_mhz(dec.base)) = dm32_band_score(bcd_mhz_alt(dec.base))
    /\ dec.ret = bcd_mhz(dec.base)

\* C16: a channel returned by dm32_parse_slot whose rx_mhz is in [100, 1000]
\* MHz has tx_mhz in [100, 1000] MHz and at most 10 MHz from rx_mhz, tx_mhz
\* being the decoded value or else rx_mhz; when rx_mhz is outside
\* [100, 1000] MHz tx_mhz is the decoded TX value unchanged
C16_TxClamp ==
    (dec.op = "parse" /\ dec.ret = 0) =>
        LET rx == dec.out.rx_mhz
            tx == dec.out.tx_mhz
            decoded == decode_freq_mhz(dec.out.sig_offset + dec.out.tx_ofs, rx)
            far == decoded < 10000000 \/ decoded > 100000000 \/ Abs(decoded - rx) > 1000000
        IN  IF rx >= 10000000 /\ rx <= 100000000
            THEN /\ tx >= 10000000 /\ tx <= 100000000
                 /\ Abs(tx - rx) <= 1000000
                 /\ tx \in {decoded, rx}
                 /\ far => tx = rx
            ELSE tx = decoded

\* a decoded TX of 301.00000 MHz replaced by the RX of 443.58750 MHz
C16_Witness ==
    /\ dec.op = "parse"
    /\ dec.ret = 0
    /\ dec.out.rx_mhz = 44358750
    /\ decode_freq_mhz(dec.out.sig_offset + dec.out.tx_ofs, dec.out.rx_mhz) = 30100000
    /\ dec.out.tx_mhz = 44358750

\* the 16 bytes of the image at the parameter offset of the returned channel
Window(i) == MemAt(dec.out.sig_offset + dec.out.params_ofs + i)

WindowBytes == [i \in 1..DM32_PARAMS_LEN |-> Window(i - 1)]

\* the window starts 04 80 00 00
AnalogFlavor == Window(0) = 4 /\ Window(1) = 128 /\ Window(2) = 0 /\ Window(3) = 0

\* C17: for every parameter window a channel is decoded from, power_high is
\* bit 0x04 of byte 0 and monitor_flag is bit 0x01 of byte 7; an analog
\* window gives timeslot 1 and color code 0, every other window timeslot 2
\* iff bit 0x10 of byte 5 is set and color code = low nibble of byte 5; the
\* three documented windows decode to (TS1, CC1, low), (TS2, CC1, high,
\* monitor) and (TS1, CC3, high)
C17_ParameterInterpretation ==
    (dec.op = "parse" /\ dec.ret = 0) =>
        /\ dec.out.power_high = (Window(0) \div 4) % 2
        /\ dec.out.monitor_flag = Window(7) % 2
        /\ AnalogFlavor => dec.out.timeslot = 1 /\ dec.out.color_code = 0
        /\ ~AnalogFlavor =>
              /\ dec.out.timeslot = 2 <=> (Window(5) \div 16) % 2 = 1
              /\ dec.out.timeslot \in {1, 2}
              /\ dec.out.color_code = Window(5) % 16
        /\ WindowBytes = ParamsRicMetro =>
              dec.out.timeslot = 1 /\ dec.out.color_code = 1 /\ dec.out.power_high = 0
        /\ WindowBytes = ParamsRicMonitor =>
              /\ dec.out.timeslot = 2 /\ dec.out.color_code = 1
              /\ dec.out.power_high = 1 /\ dec.out.monitor_flag = 1
        /\ WindowBytes = ParamsRicTacB =>
              dec.out.timeslot = 1 /\ dec.out.color_code = 3 /\ dec.out.power_high = 1

\* the window of "RIC Monitor TS2" decoded
C17_Witness ==
    /\ dec.op = "parse"
    /\ dec.ret = 0
    /\ WindowBytes = ParamsRicMonitor
    /\ dec.out.timeslot = 2
    /\ dec.out.color_code = 1
    /\ dec.out.power_high = 1
    /\ dec.out.monitor_flag = 1

\* C18: a channel returned by dm32_parse_slot has timeslot in {1, 2}, color
\* code in 0..15, power_high and monitor_flag in {0, 1}, a name of 1 to 31
\* printable ASCII characters equal to the label bytes at the slot start, and
\* params equal byte for byte to the 16 bytes of the image at the parameter
\* offset it resolved
C18_ChannelWellFormed ==
    (dec.op = "parse" /\ dec.ret = 0) =>
        /\ dec.out.timeslot \in {1, 2}
        /\ dec.out.color_code \in 0..15
        /\ dec.out.power_high \in {0, 1}
        /\ dec.out.monitor_flag \in {0, 1}
        /\ Len(dec.out.name) \in 1..31
        /\ \A i \in 1..Len(dec.out.name) :
              /\ dec.out.name[i] \in 32..126
              /\ dec.out.name[i] = MemAt(dec.base + i - 1)
        /\ Len(dec.out.params) = 16
        /\ \A i \in 1..16 :
              dec.out.params[i] = MemAt(dec.out.sig_offset + dec.out.params_ofs + i - 1)

\* a channel with a name of 31 characters, decoded from the layout whose
\* parameters precede the TX word
C18_Witness ==
    /\ dec.op = "parse"
    /\ dec.ret = 0
    /\ Len(dec.out.name) = 31
    /\ dec.out.params_ofs = 4
    /\ dec.out.params = WindowBytes

\* C19: every slot address handed to dm32_parse_slot by a consumer (the
\* parsed-fields CSV, the config printer, the channel extraction, by itself
\* or for the validation of a CSV) is 0x00601C + i * 0x30 with 0 <= i < 240,
\* whatever the high-water mark
C19_SlotsInsideWindow ==
    dec.op \in {"fields_csv", "print_config", "extract", "write_csv"} =>
        \A p \in dec.out.slots : \E i \in 0..239 : p = 24604 + i * 48

-----------------------------------------------------------------------------
(* Properties of one dm32_read_block call *)

\* the ways dm32_read_block returns -1 before the payload loop
EarlyFailures == {"range", "write", "skip", "timeout", "shorthdr", "header"}

\* the phase changes of one call: request, header synchronisation, payload
\* reception, return
PhaseOrder ==
    { <<"idle", "sync">>, <<"idle", "ret">>,
      <<"sync", "sync">>, <<"sync", "validate">>, <<"sync", "ret">>,
      <<"validate", "payload">>, <<"validate", "ret">>,
      <<"payload", "payload">>, <<"payload", "ret">>,
      <<"ret", "idle">> }

\* C21: within one dm32_read_block call the phases follow the order request,
\* header synchronisation, payload reception, return; radio_mem and
\* dm32_written_max change only in the payload loop, after a header echoing
\* the request; and a call that fails before the payload loop leaves both as
\* they were at its entry.
C21_PhaseOrder ==
    /\ [](rb.phase \in {"sync", "validate"} =>
            (radio_mem = rb.mem0 /\ dm32_written_max = rb.wmax0 /\ rb.off = 0))
    /\ []((rb.phase = "ret" /\ rb.why \in EarlyFailures) =>
            (rb.ret = -1 /\ radio_mem = rb.mem0 /\ dm32_written_max = rb.wmax0))
    /\ []((rb.phase = "ret" /\ rb.ret = -1 /\ rb.off = 0) => rb.why \in EarlyFailures \cup {"stall"})
    /\ [][ rb'.phase # rb.phase => <<rb.phase, rb'.phase>> \in PhaseOrder ]_vars
    /\ [][ (radio_mem' # radio_mem \/ dm32_written_max' # dm32_written_max) =>
            /\ rb.phase = "payload"
            /\ rb'.phase = "payload"
            /\ rb.wrote
            /\ rb.hdr = Echo(rb.cmd) ]_vars

\* a call that went through all phases: junk and an empty read before the
\* marker, then the payload in two chunks, over an image that held bytes before
C21_Witness ==
    /\ rb.phase = "ret"
    /\ rb.ret = 0
    /\ rb.skip > 0
    /\ rb.empties > 0
    /\ rb.len > ChunkMax
    /\ rb.wmax0 > 0

-----------------------------------------------------------------------------
(* Properties of the slot layout and of the parameter templates *)

\* the 4 bytes of the image at a
Word4(a) == <<MemAt(a), MemAt(a + 1), MemAt(a + 2), MemAt(a + 3)>>

\* the leading bytes 14 00 00 00 and 04 80 00 00
LeadDigital == <<20, 0, 0, 0>>

LeadAnalog == <<4, 128, 0, 0>>

\* C22: for every channel dm32_parse_slot returns, TX is decoded at s + 8 and
\* the parameters are taken at s + 4 iff the 4 bytes at s + 4 are 14 00 00 00
\* or 04 80 00 00; in every other case TX is decoded at s + 4 and the
\* parameters are taken at s + 8; RX is decoded at s + 0 in both cases
C22_LayoutVariant ==
    (dec.op = "parse" /\ dec.ret = 0) =>
        LET s == dec.out.sig_offset
            templ == Word4(s + 4) \in {LeadDigital, LeadAnalog}
            txa == IF templ THEN s + 8 ELSE s + 4
            pa == IF templ THEN s + 4 ELSE s + 8
        IN  /\ dec.out.tx_ofs = (IF templ THEN 8 ELSE 4)
            /\ dec.out.params_ofs = (IF templ THEN 4 ELSE 8)
            /\ dec.out.rx_mhz = decode_freq_mhz(s, 0)
            /\ dec.out.tx_mhz \in {decode_freq_mhz(txa, dec.out.rx_mhz), dec.out.rx_mhz}
            /\ dec.out.params = [i \in 1..DM32_PARAMS_LEN |-> MemAt(pa + i - 1)]
            /\ (txa..(txa + 3)) \cup (pa..(pa + DM32_PARAMS_LEN - 1)) \subseteq dec.reads

\* a channel whose bytes at s + 4 start with 0x14 without being the template
\* 14 00 00 00: the common layout is used
C22_Witness ==
    /\ dec.op = "parse"
    /\ dec.ret = 0
    /\ MemAt(dec.out.sig_offset + 4) = 20
    /\ Word4(dec.out.sig_offset + 4) # LeadDigital
    /\ dec.out.tx_ofs = 4
    /\ dec.out.params_ofs = 8

\* C23: for every channel dm32_parse_slot returns, the window at the resolved
\* parameter offset is classified digital (is_digital) exactly when it matches
\* the digital template of the scoring in dm32_locate_signature, and analog
\* (is_analog) exactly when it matches the analog template of the scoring
C23_ClassificationsAgree ==
    (dec.op = "parse" /\ dec.ret = 0) =>
        /\ dec.out.is_digital <=> DigitalHead(dec.out.sig_offset + dec.out.params_ofs)
        /\ dec.out.is_analog <=> AnalogHead(dec.out.sig_offset + dec.out.params_ofs)

-----------------------------------------------------------------------------
(* Properties of the scoring in dm32_locate_signature *)

\* the word at a holds eight decimal digits
ValidBcd(a) == \A i \in 0..3 : MemAt(a + i) \div 16 <= 9 /\ MemAt(a + i) % 16 <= 9

\* the words at a and a + 4 are valid BCD and decode to values in [30, 1000] MHz
BothWordsPlausible(a) ==
    /\ ValidBcd(a) /\ InRange(bcd_mhz(a))
    /\ ValidBcd(a + 4) /\ InRange(bcd_mhz(a + 4))

\* offsets sig the scan of the last dm32_locate_signature call examined
ScannedSigs ==
    IF dec.out.q = 0 THEN {}
    ELSE { SigOf(dec.out.q, idx) :
             idx \in ScanVisited(dec.out.q, DecodeLimit(dm32_written_max)) }

\* C24: a candidate of the scan, at sig or at the alternative alignment
\* sig + 4, gets the BCD-plausibility bonus (bcd_ok, on which the simplex,
\* offset and band bonuses depend) only if its two words are valid BCD and
\* decode to values in [30, 1000] MHz
C24_BcdBonusNeedsBothWords ==
    dec.op = "locate" =>
        \A sig \in ScannedSigs :
            /\ ScoreAt(sig, DecodeLimit(dm32_written_max)).bcd_ok => BothWordsPlausible(sig)
            /\ ScoreAlt(sig + 4, DecodeLimit(dm32_written_max)).bcd_ok
                   => BothWordsPlausible(sig + 4)

-----------------------------------------------------------------------------
(* Properties of the image after block reads *)

\* C25: every address below dm32_written_max holds a byte stored by a payload
\* chunk of some dm32_read_block call (radio_mem is defined exactly on the
\* addresses that were stored)
C25_BelowMarkCaptured ==
    \A a \in 0..(dm32_written_max - 1) : a \in DOMAIN radio_mem

-----------------------------------------------------------------------------
(* Properties of the byte ranges of a decoded channel *)

\* the n addresses from a on
Range(a, n) == a..(a + n - 1)

\* C26: for every channel dm32_parse_slot returns, the RX word, the TX word
\* and the 16-byte parameter window are pairwise disjoint byte ranges, in both
\* slot layouts
C26_RangesDisjoint ==
    (dec.op = "parse" /\ dec.ret = 0) =>
        LET rxr == Range(dec.out.sig_offset, 4)
            txr == Range(dec.out.sig_offset + dec.out.tx_ofs, 4)
            par == Range(dec.out.sig_offset + dec.out.params_ofs, DM32_PARAMS_LEN)
        IN  /\ rxr \cap txr = {}
            /\ rxr \cap par = {}
            /\ txr \cap par = {}

-----------------------------------------------------------------------------
(* Properties of header synchronisation inside the retry loop *)

\* the 6 bytes taken as header when a stray 0x57 comes just before the echo
StrayHeader(cmd) == [j \in 1..6 |-> IF j <= 2 THEN MarkerByte ELSE cmd[j - 1]]

\* C27: dm32_read_header_sync stops at the first 0x57 it reads and takes the 5
\* bytes after it as the header; a header that does not echo the request makes
\* dm32_read_block return -1 without reading on or storing anything, and the
\* block is read only by a later iteration of dm32_read_block_retry, which
\* sends the request again
C27_LocksOnFirstMarker ==
    /\ [](rb.hdr # <<>> => rb.hdr[1] = MarkerByte)
    /\ [](rt.phase # "idle" => rt.hdrFails <= rt.i)
    /\ []((rt.phase = "ret" /\ rt.ret = 0) => rt.made >= rt.hdrFails + 1)
    /\ [][ (rb.phase = "sync" /\ rb'.hdr # <<>>) =>
            /\ rb'.phase = "validate"
            /\ rb'.skip = rb.skip
            /\ rb'.empties = rb.empties ]_vars
    /\ [][ (rb.phase = "validate" /\ rb.hdr # Echo(rb.cmd)) =>
            /\ rb'.phase = "ret"
            /\ rb'.ret = -1
            /\ rb'.hdr = rb.hdr
            /\ rb'.skip = rb.skip
            /\ rb'.empties = rb.empties
            /\ UNCHANGED <<radio_mem, dm32_written_max, sent>> ]_vars
    /\ [][ (rb.phase = "ret" /\ rb.hdr # <<>> /\ rb.hdr # Echo(rb.cmd)) =>
            /\ rb'.phase = "idle"
            /\ rt'.phase = "loop"
            /\ rt'.i = rt.i + 1
            /\ rt'.hdrFails = rt.hdrFails + 1
            /\ UNCHANGED <<radio_mem, dm32_written_max, sent>> ]_vars
    /\ [][ (rb.phase = "idle" /\ rb'.phase # "idle" /\ rt.hdrFails > 0) =>
            (rb'.wrote => Len(sent') = Len(sent) + 1) ]_vars

\* an attempt that failed on a stray 0x57 read, after junk, just before the
\* echo of the request
C27_Witness ==
    /\ rb.phase = "ret"
    /\ rb.ret = -1
    /\ rb.skip > 0
    /\ rb.hdr = StrayHeader(rb.cmd)
    /\ rb.hdr # Echo(rb.cmd)
    /\ radio_mem = rb.mem0

\* C28: a dm32_read_block(addr, len) call, whether it returns 0 or -1, stores
\* at most len bytes, all of them at addresses in [addr, addr + len) below
\* 2 MiB: each chunk of r bytes goes to [addr + off, addr + off + r) with
\* off + r <= len, and every byte outside [addr, addr + off) is as it was
\* when the call began
C28_WritesInsideBlock ==
    /\ [](\A a \in DOMAIN radio_mem : a >= 0 /\ a < MemBound)
    /\ [](rb.phase # "idle" =>
            /\ rb.off >= 0
            /\ rb.off <= rb.len
            /\ rb.off > 0 => rb.addr + rb.len <= MemBound
            /\ SameOutside(radio_mem, rb.mem0, rb.addr, rb.off))
    /\ [][ radio_mem' # radio_mem =>
            /\ rb'.off > rb.off
            /\ rb'.off <= rb.len
            /\ rb'.off - rb.off <= ChunkMax
            /\ DOMAIN radio_mem' = (DOMAIN radio_mem) \cup ((rb.addr + rb.off)..(rb.addr + rb'.off - 1))
            /\ \A a \in DOMAIN radio_mem :
                 a \notin (rb.addr + rb.off)..(rb.addr + rb'.off - 1) => radio_mem'[a] = radio_mem[a] ]_vars

\* a call that failed after storing part of its payload over bytes an earlier
\* block had stored
C28_Witness ==
    /\ rb.phase = "ret"
    /\ rb.ret = -1
    /\ rb.off > 0
    /\ rb.off < rb.len
    /\ rb.addr \in DOMAIN rb.mem0
    /\ radio_mem[rb.addr] # rb.mem0[rb.addr]
    /\ \E a \in DOMAIN rb.mem0 : a < rb.addr

-----------------------------------------------------------------------------
(* Properties of the acceptance in dm32_locate_signature *)

\* the acceptance rule applied to one candidate
AcceptsAlone(c) == c.score >= 9 \/ (c.score >= 6 /\ c.param_ok)

\* C29: if a candidate the scan evaluated, at sig or at the alternative
\* alignment sig + 4, satisfies the acceptance rule by itself (score >= 9, or
\* score >= 6 with its parameter pattern matched), dm32_locate_signature
\* returns 0
C29_AcceptanceComplete ==
    dec.op = "locate" =>
        \A sig \in ScannedSigs :
            (\/ AcceptsAlone(ScoreAt(sig, DecodeLimit(dm32_written_max)))
             \/ AcceptsAlone(ScoreAlt(sig + 4, DecodeLimit(dm32_written_max))))
                => dec.ret = 0

-----------------------------------------------------------------------------
(* Properties of the branches of the parameter interpretation *)

\* power_high, timeslot and color_code of the channel last returned
OutFields ==
    [power_high |-> dec.out.power_high, timeslot |-> dec.out.timeslot,
     color_code |-> dec.out.color_code]

\* C30: on the bytes of any decoded window the is_digital branch and the
\* fallback branch of dm32_parse_slot give the same timeslot, color code and
\* power_high, so a channel decoded by either branch has the fields the other
\* would have given; a window classified digital gives timeslot 1, color code
\* 1 and power_high 1, and a window classified analog gives power_high 1
C30_BranchesAgree ==
    (dec.op = "parse" /\ dec.ret = 0) =>
        /\ dec.out.is_digital =>
            /\ OutFields = LegacyFields(dec.out.params)
            /\ dec.out.timeslot = 1
            /\ dec.out.color_code = 1
            /\ dec.out.power_high = 1
        /\ (~dec.out.is_digital /\ ~dec.out.is_analog) =>
            OutFields = DigitalFields(dec.out.params[1], dec.out.params[6])
        /\ dec.out.is_analog => dec.out.power_high = 1

\* a window that is neither digital nor analog, decoded by the fallback
\* branch to timeslot 2, color code 3 and low power
C30_Witness ==
    /\ dec.op = "parse"
    /\ dec.ret = 0
    /\ ~dec.out.is_digital
    /\ ~dec.out.is_analog
    /\ dec.out.timeslot = 2
    /\ dec.out.color_code = 3
    /\ dec.out.power_high = 0

====
